---- MODULE Spec2Model ----
(***************************************************************************)
(* The ZIP/EPUB container writer of src/main.js: createZipBuffer, crc32,   *)
(* getCrc32Table and the export-epub IPC handler that calls them.          *)
(*                                                                         *)
(* Representation.  A Buffer is a sequence of bytes 0..255 (index 1 is     *)
(* byte offset 0).  A JavaScript number that takes part in 32-bit          *)
(* arithmetic is a pair <<hi, lo>> standing for hi * 2^16 + lo, with lo in *)
(* 0..65535 and hi in -32768..65535: the pair covers both the signed       *)
(* results of ^ and & (hi < 0) and the unsigned results of >>> (hi >= 0),  *)
(* which do not fit one TLC integer.  Lengths and offsets are naturals.    *)
(* A string is the sequence of its UTF-16 code units.                      *)
(***************************************************************************)
EXTENDS Integers, Sequences, FiniteSets, TLC

VARIABLES
    crc32Table,      \* main.js:1875  the module-level cache, Null until built
    pc,              \* position of the running call
    caller,          \* who called createZipBuffer: "direct" or "epub"
    files,           \* createZipBuffer's argument
    idx,             \* 1-based position of the for-of loop over files
    cur,             \* nameBuffer, finalData, useCompression of the iteration
    localHeaders,    \* main.js:1774
    centralHeaders,  \* main.js:1775
    offset,          \* main.js:1776
    result,          \* the returned Buffer, Null while none
    notesData,       \* export-epub's argument
    disk,            \* the content of savePath, Null while never written
    reply,           \* what the export-epub handler resolved to
    prev,            \* history: what the call being repeated returned
    crcIn,           \* argument of a direct crc32 call
    crcOut,          \* its return value
    invocations,     \* crc32 invocations followed statement by statement
    builds,          \* createZipBuffer calls followed side by side
    bulk,            \* a createZipBuffer call on a list too long to hold
    tableBuilds      \* history: how often lines 1879-1886 have run

vars == <<crc32Table, pc, caller, files, idx, cur, localHeaders,
          centralHeaders, offset, result, notesData, disk, reply, prev,
          crcIn, crcOut,
          invocations, builds, bulk, tableBuilds>>

Null == <<>>

(***************************************************************************)
(* Bounds of the model.                                                    *)
(***************************************************************************)
MaxEntries == 2      \* longest entry list of a direct createZipBuffer call
MaxRun == 6          \* longest run payload
MaxNotes == 2        \* longest notesData of an export
MaxText == 5         \* bytes kept of each generated document
MaxCrcLen == 2       \* longest enumerated crc32 input
MaxInvocations == 2  \* crc32 invocations followed side by side
MaxBuilds == 2       \* createZipBuffer calls followed side by side
MaxOver == 5         \* entry counts looked at on each side of 65535

(***************************************************************************)
(* 32-bit arithmetic of JavaScript on <<hi, lo>> pairs.                    *)
(***************************************************************************)
\* (x and y are the operands a and b, taken as values once)
RECURSIVE Xor16(_, _)
Xor16(a, b) ==
    CHOOSE r \in
      {IF x = 0 THEN y
       ELSE IF y = 0 THEN x
       ELSE ((x + y) % 2) + 2 * Xor16(x \div 2, y \div 2) :
         x \in {a}, y \in {b}} : TRUE

RECURSIVE And16(_, _)
And16(a, b) ==
    CHOOSE r \in
      {IF x = 0 \/ y = 0 THEN 0
       ELSE ((x % 2) * (y % 2)) + 2 * And16(x \div 2, y \div 2) :
         x \in {a}, y \in {b}} : TRUE

Num(n) == <<n \div 65536, n % 65536>>

\* (in the operators below an operand is taken as a value once: x, y, u
\* and h are bound to the operand or to its conversion)
ToNat(w) == CHOOSE r \in {x[1] * 65536 + x[2] : x \in {w}} : TRUE

\* ToUint32 and ToInt32 of ECMAScript, on values in -2^31 .. 2^32-1
ToUint32(w) == CHOOSE r \in {<<x[1] % 65536, x[2]>> : x \in {w}} : TRUE

ToInt32(w) ==
    CHOOSE r \in
      {<<IF h >= 32768 THEN h - 65536 ELSE h, x[2]>> :
         h \in {x[1] % 65536 : x \in {w}}, x \in {w}} : TRUE

\* a ^ b: both operands ToInt32, the result a signed 32-bit value
JsXor(a, b) ==
    CHOOSE r \in
      {ToInt32(<<Xor16(x[1], y[1]), Xor16(x[2], y[2])>>) :
         x \in {ToUint32(a)}, y \in {ToUint32(b)}} : TRUE

\* a & b
JsAnd(a, b) ==
    CHOOSE r \in
      {ToInt32(<<And16(x[1], y[1]), And16(x[2], y[2])>>) :
         x \in {ToUint32(a)}, y \in {ToUint32(b)}} : TRUE

\* a >>> 8, a >>> 1, a >>> 0: the operand ToUint32, the result unsigned
Ushr8(a) ==
    CHOOSE r \in
      {<<u[1] \div 256, (u[1] % 256) * 256 + (u[2] \div 256)>> :
         u \in {ToUint32(a)}} : TRUE

Ushr1(a) ==
    CHOOSE r \in
      {<<u[1] \div 2, (u[1] % 2) * 32768 + (u[2] \div 2)>> :
         u \in {ToUint32(a)}} : TRUE

\* variant of Ushr0: the shift left out, the operand handed on as it is
Ushr0Omitted(a) == a

Ushr0(a) == ToUint32(a)

IsUint32(w) == w[1] >= 0 /\ w[1] <= 65535 /\ w[2] >= 0 /\ w[2] <= 65535

Min(a, b) == IF a < b THEN a ELSE b

\* the function f on 1..n as a sequence
Tabulate(f, n) == SubSeq(f, 1, n)

\* variant of Poly: the polynomial not reflected, 0x04C11DB7
PolyUnreflected == <<1217, 7607>>

Poly == <<60856, 33568>>          \* 0xEDB88320
AllOnes == <<65535, 65535>>       \* 0xFFFFFFFF

(***************************************************************************)
(* getCrc32Table (main.js:1876-1889) and crc32 (main.js:1864-1873).        *)
(***************************************************************************)
\* the inner loop of lines 1882-1884, v its variables c and j (w is their
\* value after one round, taken as a value once)
RECURSIVE TableRounds(_)
TableRounds(v) ==
    IF v.j = 8 THEN v.c
    ELSE CHOOSE r \in
           {TableRounds(w) :
              w \in {[c |-> IF ToNat(JsAnd(v.c, Num(1))) # 0
                           THEN JsXor(Poly, Ushr1(v.c))
                           ELSE Ushr1(v.c),
                     j |-> v.j + 1]}} : TRUE

\* crc32Table[i] = c: a Uint32Array element stores ToUint32 of the value
TableEntry(i) == ToUint32(TableRounds([c |-> Num(i), j |-> 0]))

\* the table a run of lines 1879-1886 leaves in crc32Table
NewCrc32Table == Tabulate([i \in 1..256 |-> TableEntry(i - 1)], 256)

\* variant of getCrc32Table: the building call hands out a table that was
\* never filled and caches the filled one
getCrc32TableUnfilled(t) ==
    IF t # Null THEN [ret |-> t, cache |-> t, built |-> FALSE]
    ELSE [ret |-> [i \in 1..256 |-> <<0, 0>>], cache |-> NewCrc32Table,
          built |-> TRUE]

\* variant of getCrc32Table: line 1877 left out, every call builds a table
getCrc32TableRebuilt(t) ==
    [ret |-> NewCrc32Table, cache |-> NewCrc32Table, built |-> TRUE]

\* getCrc32Table applied to the cache t: the table returned to the caller,
\* the value left in the cache, and whether lines 1879-1886 ran (built)
getCrc32Table(t) ==
    IF t # Null THEN [ret |-> t, cache |-> t, built |-> FALSE]
    ELSE [ret |-> NewCrc32Table, cache |-> NewCrc32Table, built |-> TRUE]

\* tableBuilds after a call of getCrc32Table that gave t; the count stops
\* at 2, more than one build being all that is asked about
Counted(t) == IF t.built THEN Min(tableBuilds + 1, 2) ELSE tableBuilds

\* the for loop of lines 1868-1870, v its variables crc and i (i counts
\* from 1 here, buffer[v.i] is the source's buffer[i])
RECURSIVE Crc32Loop(_, _, _)
Crc32Loop(buffer, table, v) ==
    IF v.i > Len(buffer) THEN v.crc
    ELSE CHOOSE r \in
           {Crc32Loop(buffer, table, w) :
              w \in {[crc |-> JsXor(Ushr8(v.crc),
                                    table[ToNat(JsAnd(JsXor(v.crc,
                                                            Num(buffer[v.i])),
                                                      Num(255))) + 1]),
                      i |-> v.i + 1]}} : TRUE

\* variant of crc32: the final XOR left out
crc32NoFinalXor(buffer, table) ==
    Ushr0(Crc32Loop(buffer, table, [crc |-> AllOnes, i |-> 1]))

\* crc32(buffer) when getCrc32Table hands it table
crc32(buffer, table) ==
    Ushr0(JsXor(Crc32Loop(buffer, table, [crc |-> AllOnes, i |-> 1]),
                AllOnes))

(***************************************************************************)
(* Buffer primitives of Node used by the writer.                           *)
(***************************************************************************)
\* Buffer.alloc(n)
Alloc(n) == Tabulate([k \in 1..n |-> 0], n)

\* the value checks of buf.writeUInt16LE / buf.writeUInt32LE: a value
\* outside the field's range makes the call throw a RangeError
\* variant of FitsUInt16: no value check, the write keeps the low 16 bits
FitsUInt16Unchecked(n) == TRUE

FitsUInt16(n) == n >= 0 /\ n <= 65535

FitsUInt32(w) == IsUint32(w)

\* bytes off+1 .. off+Len(bytes) of buf replaced by bytes (b is buf, taken
\* as a value once)
Splice(buf, bytes, off) ==
    CHOOSE r \in {SubSeq(b, 1, off) \o bytes
                    \o SubSeq(b, off + Len(bytes) + 1, Len(b)) : b \in {buf}} :
        TRUE

\* buf.writeUInt16LE(value, off), value in range
writeUInt16LE(buf, value, off) ==
    Splice(buf, <<value % 256, (value \div 256) % 256>>, off)

\* buf.writeUInt32LE(value, off), value a <<hi, lo>> pair in range
writeUInt32LE(buf, value, off) ==
    Splice(buf, <<value[2] % 256, value[2] \div 256,
                  value[1] % 256, value[1] \div 256>>, off)

\* src.copy(dst, off), src fitting into dst
copy(src, dst, off) == Splice(dst, src, off)

\* Buffer.concat(parts)
RECURSIVE concat(_)
concat(parts) ==
    IF parts = <<>> THEN <<>> ELSE Head(parts) \o concat(Tail(parts))

\* Buffer.from(str, 'utf8') from code unit i on: UTF-8 of a string of UTF-16
\* code units; a surrogate pair gives four bytes, a lone surrogate U+FFFD
RECURSIVE Utf8From(_, _)
Utf8From(str, i) ==
    IF i > Len(str) THEN <<>>
    ELSE LET c == str[i]
         IN  IF c < 128 THEN <<c>> \o Utf8From(str, i + 1)
             ELSE IF c < 2048
             THEN <<192 + (c \div 64), 128 + (c % 64)>> \o Utf8From(str, i + 1)
             ELSE IF c >= 55296 /\ c <= 56319 /\ i < Len(str)
                     /\ str[i + 1] >= 56320 /\ str[i + 1] <= 57343
             THEN LET cp == 65536 + (c - 55296) * 1024 + (str[i + 1] - 56320)
                  IN  <<240 + (cp \div 262144), 128 + ((cp \div 4096) % 64),
                        128 + ((cp \div 64) % 64), 128 + (cp % 64)>>
                      \o Utf8From(str, i + 2)
             ELSE IF c >= 55296 /\ c <= 57343
             THEN <<239, 191, 189>> \o Utf8From(str, i + 1)
             ELSE <<224 + (c \div 4096), 128 + ((c \div 64) % 64),
                    128 + (c % 64)>> \o Utf8From(str, i + 1)

BufferFromUtf8(str) == Utf8From(str, 1)

(***************************************************************************)
(* zlib.deflateRawSync(data) (called at main.js:1781) with Node's default  *)
(* options: level 6 (deflate_slow, lazy matching), one final block.  For   *)
(* the short buffers of this model zlib always emits a fixed-Huffman block *)
(* and never reaches its hash-chain limits; the operators below are that   *)
(* path of zlib.                                                           *)
(***************************************************************************)
MinMatch == 3
MaxMatch == 258
MaxLazy == 16        \* max_lazy_match of level 6
TooFar == 4096

SetMax(S) == CHOOSE x \in S : \A y \in S : y <= x

\* number of equal bytes of w at 0-based positions p and s, up to MaxMatch
RECURSIVE MatchLen(_, _, _, _)
MatchLen(w, p, s, n) ==
    IF s + n < Len(w) /\ n < MaxMatch /\ w[p + n + 1] = w[s + n + 1]
    THEN MatchLen(w, p, s, n + 1)
    ELSE n

\* deflate_slow: st.s the 0-based strstart, st.mlen / st.mstart the match of
\* the previous position, st.avail match_available, st.ins the positions in
\* the hash table, st.toks the literals and matches emitted so far
RECURSIVE DeflateSlow(_, _)
DeflateSlow(w, st) ==
    LET n == Len(w)
        s == st.s
    IN  IF s >= n
        THEN IF st.avail
             THEN Append(st.toks, [lit |-> TRUE, a |-> w[n], b |-> 0])
             ELSE st.toks
        ELSE
        LET look == n - s
            \* position 0 is NIL in the hash chains and is never a candidate
            cands == IF look >= MinMatch
                     THEN {p \in st.ins :
                             /\ p >= 1
                             /\ \A k \in 1..MinMatch : w[p + k] = w[s + k]}
                     ELSE {}
            ins1 == IF look >= MinMatch THEN st.ins \cup {s} ELSE st.ins
            plen == st.mlen
            pmatch == st.mstart
            search == cands # {} /\ plen < MaxLazy
            longer == {p \in cands : MatchLen(w, p, s, 0) > plen}
            best == IF longer = {} THEN plen
                    ELSE SetMax({MatchLen(w, p, s, 0) : p \in longer})
            found == IF longer = {} THEN pmatch
                     ELSE SetMax({p \in longer : MatchLen(w, p, s, 0) = best})
            mlen0 == IF search THEN Min(best, look) ELSE MinMatch - 1
            mstart1 == IF search THEN found ELSE pmatch
            mlen1 == IF mlen0 = MinMatch /\ s - mstart1 > TooFar
                     THEN MinMatch - 1 ELSE mlen0
            \* the variables after this position, taken as a value once
            after ==
                IF plen >= MinMatch /\ mlen1 <= plen
                THEN [s |-> s + plen - 1, mlen |-> MinMatch - 1,
                      mstart |-> mstart1, avail |-> FALSE,
                      ins |-> ins1 \cup {q \in (s + 1)..(s + plen - 2) :
                                           q <= n - MinMatch},
                      toks |-> Append(st.toks,
                                 [lit |-> FALSE, a |-> plen,
                                  b |-> s - 1 - pmatch])]
                ELSE IF st.avail
                THEN [s |-> s + 1, mlen |-> mlen1, mstart |-> mstart1,
                      avail |-> TRUE, ins |-> ins1,
                      toks |-> Append(st.toks,
                                 [lit |-> TRUE, a |-> w[s], b |-> 0])]
                ELSE [s |-> s + 1, mlen |-> mlen1, mstart |-> mstart1,
                      avail |-> TRUE, ins |-> ins1, toks |-> st.toks]
        IN  CHOOSE r \in {DeflateSlow(w, t) : t \in {after}} : TRUE

Tokens(w) ==
    DeflateSlow(w, [s |-> 0, mlen |-> MinMatch - 1, mstart |-> 0,
                    avail |-> FALSE, ins |-> {}, toks |-> <<>>])

RECURSIVE Pow2(_)
Pow2(k) == IF k = 0 THEN 1 ELSE 2 * Pow2(k - 1)

\* a Huffman code is sent most significant bit first, extra bits least first
HuffBits(code, nbits) ==
    Tabulate([k \in 1..nbits |-> (code \div Pow2(nbits - k)) % 2], nbits)

ExtraBits(v, nbits) ==
    Tabulate([k \in 1..nbits |-> (v \div Pow2(k - 1)) % 2], nbits)

\* the fixed literal/length code of RFC 1951, 3.2.6
LitLenBits(sym) ==
    IF sym <= 143 THEN HuffBits(48 + sym, 8)
    ELSE IF sym <= 255 THEN HuffBits(400 + (sym - 144), 9)
    ELSE IF sym <= 279 THEN HuffBits(sym - 256, 7)
    ELSE HuffBits(192 + (sym - 280), 8)

LengthBase ==
    <<3, 4, 5, 6, 7, 8, 9, 10, 11, 13, 15, 17, 19, 23, 27, 31, 35, 43, 51,
      59, 67, 83, 99, 115, 131, 163, 195, 227, 258>>

LengthExtra ==
    <<0, 0, 0, 0, 0, 0, 0, 0, 1, 1, 1, 1, 2, 2, 2, 2, 3, 3, 3, 3, 4, 4, 4,
      4, 5, 5, 5, 5, 0>>

DistBase ==
    <<1, 2, 3, 4, 5, 7, 9, 13, 17, 25, 33, 49, 65, 97, 129, 193, 257, 385,
      513, 769, 1025, 1537, 2049, 3073, 4097, 6145, 8193, 12289, 16385,
      24577>>

DistExtra ==
    <<0, 0, 0, 0, 1, 1, 2, 2, 3, 3, 4, 4, 5, 5, 6, 6, 7, 7, 8, 8, 9, 9, 10,
      10, 11, 11, 12, 12, 13, 13>>

\* index of the code whose base is the largest one not above v
CodeOf(base, v) == SetMax({k \in 1..Len(base) : base[k] <= v})

TokenBits(t) ==
    IF t.lit THEN LitLenBits(t.a)
    ELSE LET i == CodeOf(LengthBase, t.a)
             j == CodeOf(DistBase, t.b)
         IN  LitLenBits(256 + i)
             \o ExtraBits(t.a - LengthBase[i], LengthExtra[i])
             \o HuffBits(j - 1, 5)
             \o ExtraBits(t.b - DistBase[j], DistExtra[j])

RECURSIVE TokensBits(_)
TokensBits(toks) ==
    IF toks = <<>> THEN <<>>
    ELSE TokenBits(Head(toks)) \o TokensBits(Tail(toks))

\* bits to bytes, least significant bit of each byte first, zero padded
BitAt(bits, k) == IF k <= Len(bits) THEN bits[k] ELSE 0

PackBits(bits) ==
    LET n == (Len(bits) + 7) \div 8
    IN  Tabulate([i \in 1..n |->
                    BitAt(bits, 8 * i - 7) + 2 * BitAt(bits, 8 * i - 6)
                    + 4 * BitAt(bits, 8 * i - 5) + 8 * BitAt(bits, 8 * i - 4)
                    + 16 * BitAt(bits, 8 * i - 3) + 32 * BitAt(bits, 8 * i - 2)
                    + 64 * BitAt(bits, 8 * i - 1) + 128 * BitAt(bits, 8 * i)],
                 n)

\* BFINAL = 1, BTYPE = 01, the symbols, end of block (256)
deflateRawSync(data) ==
    CHOOSE r \in
      {PackBits(bits) :
         bits \in {<<1, 1, 0>> \o TokensBits(toks) \o LitLenBits(256) :
                     toks \in {Tokens(data)}}} : TRUE

(***************************************************************************)
(* createZipBuffer (main.js:1772-1861; the copy at 4210-4299 is the same   *)
(* text).                                                                  *)
(***************************************************************************)
LocalSig == 67324752        \* 0x04034b50
CentralSig == 33639248      \* 0x02014b50
EocdSig == 101010256        \* 0x06054b50
VersionNeeded == 20
MethodDeflate == 8
MethodStore == 0

\* variant of UseCompression: the flag alone decides
UseCompressionByFlag(file, compressed) == file.compress

\* variant of UseCompression: kept when not longer
UseCompressionNotLonger(file, compressed) ==
    file.compress /\ Len(compressed) <= Len(file.data)

\* line 1782
UseCompression(file, compressed) ==
    file.compress /\ Len(compressed) < Len(file.data)

\* variant of FinalData: the DEFLATE output is kept whatever was decided
FinalDataCompressed(file, compressed) == compressed

\* line 1783
FinalData(file, compressed) ==
    IF UseCompression(file, compressed) THEN compressed ELSE file.data

\* variant of CrcInput: the checksum of the bytes that are stored
CrcInputStored(file, finalData) == finalData

\* line 1786: the buffer handed to crc32
CrcInput(file, finalData) == file.data

Method(useCompression) ==
    IF useCompression THEN MethodDeflate ELSE MethodStore

\* lines 1789-1801
LocalHeader(nameBuffer, useCompression, crc, finalLen, dataLen) ==
    LET h0 == Alloc(30 + Len(nameBuffer))
        h1 == writeUInt32LE(h0, Num(LocalSig), 0)
        h2 == writeUInt16LE(h1, VersionNeeded, 4)
        h3 == writeUInt16LE(h2, 0, 6)
        h4 == writeUInt16LE(h3, Method(useCompression), 8)
        h5 == writeUInt16LE(h4, 0, 10)
        h6 == writeUInt16LE(h5, 0, 12)
        h7 == writeUInt32LE(h6, crc, 14)
        h8 == writeUInt32LE(h7, Num(finalLen), 18)
        h9 == writeUInt32LE(h8, Num(dataLen), 22)
        h10 == writeUInt16LE(h9, Len(nameBuffer), 26)
        h11 == writeUInt16LE(h10, 0, 28)
    IN  copy(nameBuffer, h11, 30)

\* variant of CentralHeader: the payload's length in the compressed-size
\* field
CentralHeaderPayloadSize(nameBuffer, useCompression, crc, finalLen, dataLen, off) ==
    LET h0 == Alloc(46 + Len(nameBuffer))
        h1 == writeUInt32LE(h0, Num(CentralSig), 0)
        h2 == writeUInt16LE(h1, VersionNeeded, 4)
        h3 == writeUInt16LE(h2, VersionNeeded, 6)
        h5 == writeUInt16LE(h3, Method(useCompression), 10)
        h8 == writeUInt32LE(h5, crc, 16)
        h9 == writeUInt32LE(h8, Num(dataLen), 20)
        h10 == writeUInt32LE(h9, Num(dataLen), 24)
        h11 == writeUInt16LE(h10, Len(nameBuffer), 28)
        h17 == writeUInt32LE(h11, Num(off), 42)
    IN  copy(nameBuffer, h17, 46)

\* lines 1806-1824
CentralHeader(nameBuffer, useCompression, crc, finalLen, dataLen, off) ==
    LET h0 == Alloc(46 + Len(nameBuffer))
        h1 == writeUInt32LE(h0, Num(CentralSig), 0)
        h2 == writeUInt16LE(h1, VersionNeeded, 4)
        h3 == writeUInt16LE(h2, VersionNeeded, 6)
        h4 == writeUInt16LE(h3, 0, 8)
        h5 == writeUInt16LE(h4, Method(useCompression), 10)
        h6 == writeUInt16LE(h5, 0, 12)
        h7 == writeUInt16LE(h6, 0, 14)
        h8 == writeUInt32LE(h7, crc, 16)
        h9 == writeUInt32LE(h8, Num(finalLen), 20)
        h10 == writeUInt32LE(h9, Num(dataLen), 24)
        h11 == writeUInt16LE(h10, Len(nameBuffer), 28)
        h12 == writeUInt16LE(h11, 0, 30)
        h13 == writeUInt16LE(h12, 0, 32)
        h14 == writeUInt16LE(h13, 0, 34)
        h15 == writeUInt16LE(h14, 0, 36)
        h16 == writeUInt32LE(h15, Num(0), 38)
        h17 == writeUInt32LE(h16, Num(off), 42)
    IN  copy(nameBuffer, h17, 46)

\* the values of one iteration all pass the range checks of their writes
HeaderWritesFit(nameBuffer, crc, finalLen, dataLen, off) ==
    /\ FitsUInt32(crc)
    /\ FitsUInt32(Num(finalLen))
    /\ FitsUInt32(Num(dataLen))
    /\ FitsUInt16(Len(nameBuffer))
    /\ FitsUInt32(Num(off))

\* variant of NextOffset: the name is left out of the local header's length
NextOffsetNoName(off, localHeader, finalData) == off + 30 + Len(finalData)

\* line 1828
NextOffset(off, localHeader, finalData) ==
    off + Len(localHeader) + Len(finalData)

\* variant of CentralSize: only the fixed part of each central header
CentralSizeFixed(chs) == 46 * Len(chs)

\* lines 1833-1836
RECURSIVE CentralSize(_)
CentralSize(chs) ==
    IF chs = <<>> THEN 0 ELSE Len(Head(chs)) + CentralSize(Tail(chs))

\* lines 1839-1847
Eocd(count, centralSize, centralOffset) ==
    LET e0 == Alloc(22)
        e1 == writeUInt32LE(e0, Num(EocdSig), 0)
        e2 == writeUInt16LE(e1, 0, 4)
        e3 == writeUInt16LE(e2, 0, 6)
        e4 == writeUInt16LE(e3, count, 8)
        e5 == writeUInt16LE(e4, count, 10)
        e6 == writeUInt32LE(e5, Num(centralSize), 12)
        e7 == writeUInt32LE(e6, Num(centralOffset), 16)
    IN  writeUInt16LE(e7, 0, 20)

EocdWritesFit(count, centralSize, centralOffset) ==
    /\ FitsUInt16(count)
    /\ FitsUInt32(Num(centralSize))
    /\ FitsUInt32(Num(centralOffset))

\* variant of LocalParts: one local header and data block per name, the
\* last entry of a name replacing the earlier ones
LocalPartsByName(lhs) ==
    LET name(k) == SubSeq(lhs[k].header, 31, Len(lhs[k].header))
        kept == {k \in 1..Len(lhs) :
                   \A j \in (k + 1)..Len(lhs) : name(j) # name(k)}
        F[k \in 0..Len(lhs)] ==
            IF k = 0 THEN <<>>
            ELSE IF k \in kept
                 THEN F[k - 1] \o <<lhs[k].header, lhs[k].data>>
                 ELSE F[k - 1]
    IN  F[Len(lhs)]

\* lines 1851-1854
RECURSIVE LocalParts(_)
LocalParts(lhs) ==
    IF lhs = <<>> THEN <<>>
    ELSE <<Head(lhs).header, Head(lhs).data>> \o LocalParts(Tail(lhs))

\* variant of Parts: the central directory ahead of the entries
PartsCentralFirst(lhs, chs, eocd) == chs \o LocalParts(lhs) \o <<eocd>>

\* variant of Parts: no end record for an empty list
PartsNothingWhenEmpty(lhs, chs, eocd) ==
    IF lhs = <<>> THEN <<>> ELSE LocalParts(lhs) \o chs \o <<eocd>>

\* variant of Parts: four bytes of padding ahead of the central directory
PartsPadded(lhs, chs, eocd) ==
    LocalParts(lhs) \o <<Alloc(4)>> \o chs \o <<eocd>>

\* lines 1850-1858: the parts list handed to Buffer.concat
Parts(lhs, chs, eocd) == LocalParts(lhs) \o chs \o <<eocd>>

\* entry of createZipBuffer(fs): lines 1773-1776 and the loop test
Enter(fs, who) ==
    /\ files' = fs
    /\ caller' = who
    /\ idx' = 1
    /\ cur' = Null
    /\ localHeaders' = <<>>
    /\ centralHeaders' = <<>>
    /\ offset' = 0
    /\ result' = Null
    /\ pc' = IF fs = <<>> THEN "finish" ELSE "compress"

\* a data field that holds no Buffer (undefined): no byte sequence equals it
Undefined == <<-1>>

\* variant of Compress: the bytes to store are written back into the entry
CompressInPlace ==
    /\ pc = "compress"
    /\ ~(files[idx].compress /\ files[idx].data = Undefined)
    /\ LET file == files[idx]
           compressed == IF file.compress THEN deflateRawSync(file.data)
                         ELSE file.data
       IN  /\ cur' = [nameBuffer |-> BufferFromUtf8(file.name),
                      finalData |-> FinalData(file, compressed),
                      useCompression |-> UseCompression(file, compressed)]
           /\ files' = [files EXCEPT ![idx].data = FinalData(file, compressed)]
    /\ pc' = "headers"
    /\ UNCHANGED <<crc32Table, caller, idx, localHeaders,
                   centralHeaders, offset, result, notesData, disk, reply,
                   prev, crcIn, crcOut>>
    /\ UNCHANGED <<invocations, builds, bulk, tableBuilds>>

\* lines 1779-1783 of the iteration for files[idx], deflateRawSync returning
\* (it does not return when handed undefined)
Compress ==
    /\ pc = "compress"
    /\ ~(files[idx].compress /\ files[idx].data = Undefined)
    /\ \E file \in {files[idx]} :
       \E compressed \in {IF file.compress THEN deflateRawSync(file.data)
                           ELSE file.data} :
         cur' = [nameBuffer |-> BufferFromUtf8(file.name),
                 finalData |-> FinalData(file, compressed),
                 useCompression |-> UseCompression(file, compressed)]
    /\ pc' = "headers"
    /\ UNCHANGED <<crc32Table, caller, files, idx, localHeaders,
                   centralHeaders, offset, result, notesData, disk, reply,
                   prev, crcIn, crcOut>>
    /\ UNCHANGED <<invocations, builds, bulk, tableBuilds>>

\* variant of CompressThrows: the failing call hands back what it had built
CompressThrowsPartial ==
    /\ pc = "compress"
    /\ files[idx].compress
    /\ pc' = "threw"
    /\ result' = concat(LocalParts(localHeaders) \o centralHeaders)
    /\ UNCHANGED <<crc32Table, caller, files, idx, cur, localHeaders,
                   centralHeaders, offset, notesData, disk, reply, prev,
                   crcIn, crcOut>>
    /\ UNCHANGED <<invocations, builds, bulk, tableBuilds>>

\* line 1781 with zlib.deflateRawSync throwing: nothing catches it inside
\* createZipBuffer, the exception leaves the function
CompressThrows ==
    /\ pc = "compress"
    /\ files[idx].compress
    /\ pc' = "threw"
    /\ UNCHANGED <<crc32Table, caller, files, idx, cur, localHeaders,
                   centralHeaders, offset, result, notesData, disk, reply,
                   prev, crcIn, crcOut>>
    /\ UNCHANGED <<invocations, builds, bulk, tableBuilds>>

\* variant of WriteHeaders: the loop does not move on, the same entry is
\* taken up again
WriteHeadersSameEntry ==
    /\ pc = "headers"
    /\ crc32Table' = getCrc32Table(crc32Table).cache
    /\ tableBuilds' = Counted(getCrc32Table(crc32Table))
    /\ pc' = "compress"
    /\ UNCHANGED <<caller, files, idx, cur, localHeaders, centralHeaders,
                   offset, result, notesData, disk, reply, prev, crcIn,
                   crcOut, invocations, builds, bulk>>

\* lines 1786-1828 of the iteration, and the loop test that follows; crc32
\* of undefined fetches the table (line 1866) and throws at buffer.length
\* (line 1868), as does a header write of a value out of range
WriteHeaders ==
    /\ pc = "headers"
    /\ \E file \in {files[idx]} :
       \E t \in {getCrc32Table(crc32Table)} :
       \E crc \in {crc32(CrcInput(file, cur.finalData), t.ret)} :
       LET finalLen == Len(cur.finalData)
           dataLen == Len(file.data)
           localHeader == LocalHeader(cur.nameBuffer, cur.useCompression,
                                      crc, finalLen, dataLen)
           centralHeader == CentralHeader(cur.nameBuffer, cur.useCompression,
                                          crc, finalLen, dataLen, offset)
       IN  /\ crc32Table' = t.cache
           /\ tableBuilds' = Counted(t)
           /\ IF /\ file.data # Undefined
                 /\ HeaderWritesFit(cur.nameBuffer, crc, finalLen, dataLen,
                                    offset)
              THEN /\ localHeaders' =
                        Append(localHeaders,
                               [header |-> localHeader,
                                data |-> cur.finalData, offset |-> offset])
                   /\ centralHeaders' = Append(centralHeaders, centralHeader)
                   /\ offset' = NextOffset(offset, localHeader, cur.finalData)
                   /\ idx' = idx + 1
                   /\ pc' = IF idx + 1 > Len(files) THEN "finish"
                            ELSE "compress"
              ELSE /\ pc' = "threw"
                   /\ UNCHANGED <<localHeaders, centralHeaders, offset, idx>>
    /\ UNCHANGED <<caller, files, cur, result, notesData, disk, reply, prev,
                   crcIn, crcOut>>
    /\ UNCHANGED <<invocations, builds, bulk>>

\* lines 1831-1860
Finish ==
    /\ pc = "finish"
    /\ LET centralOffset == offset
           centralSize == CentralSize(centralHeaders)
       IN  IF EocdWritesFit(Len(files), centralSize, centralOffset)
           THEN /\ result' = concat(Parts(localHeaders, centralHeaders,
                                         Eocd(Len(files), centralSize,
                                              centralOffset)))
                /\ pc' = "returned"
           ELSE /\ pc' = "threw"
                /\ UNCHANGED result
    /\ UNCHANGED <<crc32Table, caller, files, idx, cur, localHeaders,
                   centralHeaders, offset, notesData, disk, reply, prev,
                   crcIn, crcOut>>
    /\ UNCHANGED <<invocations, builds, bulk, tableBuilds>>

(***************************************************************************)
(* Direct calls of createZipBuffer, one after the other in one process.    *)
(***************************************************************************)
Run(n) == Tabulate([k \in 1..n |-> 97], n)

Names == { <<97>>, <<233, 8364>> }

Payloads ==
    {Run(n) : n \in {0, MaxRun - 1, MaxRun}} \cup { <<200, 0>> }

\* every payload under the one-byte name, the multi-byte name with the
\* longest payload: the name of an entry only reaches its headers
Entries ==
    [name : {<<97>>}, data : Payloads, compress : BOOLEAN]
    \cup [name : Names, data : {Run(MaxRun)}, compress : BOOLEAN]

EntryLists == UNION {[1..n -> Entries] : n \in 0..MaxEntries}

\* the entry lists called between a call and its repetition
OtherLists ==
    {fs \in EntryLists : Len(fs) = 1 /\ fs[1].compress /\ fs[1].name = <<97>>}

\* history of the direct calls: nothing kept ("none"), the entry list and
\* the buffer of a returned call kept while another list is built
\* ("saved"), or kept while that same list is built again ("repeat");
\* fresh tells whether the kept call was entered before any CRC table had
\* been built
NoPrev(fresh) ==
    [stage |-> "none", files |-> <<>>, result |-> <<>>, fresh |-> fresh]

\* createZipBuffer(fs), called when nothing else runs
Call(fs) ==
    /\ pc = "idle"
    /\ Enter(fs, "direct")
    /\ prev' = NoPrev(crc32Table = Null)
    /\ UNCHANGED <<crc32Table, notesData, disk, reply, crcIn, crcOut>>
    /\ UNCHANGED <<invocations, builds, bulk, tableBuilds>>

\* after a call returned, createZipBuffer is called with another list; prev
\* keeps the list and the buffer of the call that returned
CallOther(gs) ==
    /\ caller = "direct"
    /\ pc = "returned"
    /\ prev.stage = "none"
    /\ gs # files
    /\ Enter(gs, "direct")
    /\ prev' = [stage |-> "saved", files |-> files, result |-> result,
                fresh |-> prev.fresh]
    /\ UNCHANGED <<crc32Table, notesData, disk, reply, crcIn, crcOut>>
    /\ UNCHANGED <<invocations, builds, bulk, tableBuilds>>

\* createZipBuffer called again with the entry list of the call prev keeps,
\* or of the call that just returned when prev keeps none
CallAgain ==
    /\ caller = "direct"
    /\ pc = "returned"
    /\ IF prev.stage = "none"
       THEN /\ Enter(files, "direct")
            /\ prev' = [stage |-> "repeat", files |-> files,
                        result |-> result, fresh |-> prev.fresh]
       ELSE /\ Enter(prev.files, "direct")
            /\ prev' = [prev EXCEPT !.stage = "repeat"]
    /\ UNCHANGED <<crc32Table, notesData, disk, reply, crcIn, crcOut>>
    /\ UNCHANGED <<invocations, builds, bulk, tableBuilds>>

\* the caller is done with the call: its frame and the returned buffer are
\* dropped, only the module-level cache stays
Leave ==
    /\ pc' = "idle"
    /\ caller' = "none"
    /\ files' = <<>>
    /\ idx' = 1
    /\ cur' = Null
    /\ localHeaders' = <<>>
    /\ centralHeaders' = <<>>
    /\ offset' = 0
    /\ result' = Null

\* the direct caller is done with what its call returned or threw
Release ==
    /\ caller = "direct"
    /\ pc \in {"returned", "threw"}
    /\ Leave
    /\ prev' = NoPrev(FALSE)
    /\ UNCHANGED <<crc32Table, notesData, disk, reply, crcIn, crcOut>>
    /\ UNCHANGED <<invocations, builds, bulk, tableBuilds>>

\* a direct call on any entry list of the bounded domain
CallAny == pc = "idle" /\ \E fs \in EntryLists : Call(fs)

Init ==
    /\ crc32Table = Null
    /\ pc = "idle"
    /\ caller = "none"
    /\ files = <<>>
    /\ idx = 1
    /\ cur = Null
    /\ localHeaders = <<>>
    /\ centralHeaders = <<>>
    /\ offset = 0
    /\ result = Null
    /\ notesData = [isArray |-> TRUE, notes |-> <<>>]
    /\ disk = Null
    /\ reply = "none"
    /\ prev = NoPrev(FALSE)
    /\ crcIn = <<>>
    /\ crcOut = Null
    /\ invocations = <<>>
    /\ builds = <<>>
    /\ bulk = Null
    /\ tableBuilds = 0

Next ==
    \/ CallAny
    \/ Compress
    \/ CompressThrows
    \/ WriteHeaders
    \/ Finish
    \/ Release

Spec == Init /\ [][Next]_vars

CallOtherAny ==
    pc = "returned" /\ \E gs \in OtherLists : CallOther(gs)

NextIdem ==
    \/ CallAny
    \/ CallOtherAny
    \/ CallAgain
    \/ Compress
    \/ CompressThrows
    \/ WriteHeaders
    \/ Finish
    \/ Release

SpecIdem == Init /\ [][NextIdem]_vars

(***************************************************************************)
(* Direct calls of createZipBuffer on lists that hold a malformed entry:   *)
(* a data field that is undefined, or a name with a lone surrogate, which  *)
(* has no UTF-8 encoding (Buffer.from writes EF BF BD for it).             *)
(***************************************************************************)
LoneSurrogate == <<55357>>

MalformedEntry(e) ==
    \/ e.data = Undefined
    \/ \E k \in 1..Len(e.name) :
         /\ e.name[k] >= 55296
         /\ e.name[k] <= 57343
         /\ IF e.name[k] <= 56319
            THEN k = Len(e.name)
                 \/ e.name[k + 1] < 56320 \/ e.name[k + 1] > 57343
            ELSE k = 1 \/ e.name[k - 1] < 55296 \/ e.name[k - 1] > 56319

Malformed(fs) == \E i \in 1..Len(fs) : MalformedEntry(fs[i])

BadEntries ==
    [name : {<<97>>}, data : {Undefined}, compress : BOOLEAN]
    \cup [name : {LoneSurrogate}, data : {Run(MaxRun)}, compress : {TRUE}]

InvalidLists ==
    {fs \in UNION {[1..n -> Entries \cup BadEntries] : n \in 1..MaxEntries} :
        Malformed(fs)}

CallInvalidAny == pc = "idle" /\ \E fs \in InvalidLists : Call(fs)

NextInvalid ==
    \/ CallInvalidAny
    \/ Compress
    \/ CompressThrows
    \/ WriteHeaders
    \/ Finish
    \/ Release

SpecInvalid == Init /\ [][NextInvalid]_vars

(***************************************************************************)
(* crc32 called on its own (main.js:1864-1873), any number of times.       *)
(***************************************************************************)
\* the ASCII digits "123456789"
CheckString == <<49, 50, 51, 52, 53, 54, 55, 56, 57>>

CrcBytes == {0, 1, 128, 255}

CrcInputs ==
    {<<>>} \cup {<<b>> : b \in 0..255}
    \cup UNION {[1..n -> CrcBytes] : n \in 2..MaxCrcLen}
    \cup {CheckString}

\* crc32(buffer): line 1866 fetches the table, building it when there is
\* none
Crc32Call(buffer) ==
    /\ pc = "idle"
    /\ LET t == getCrc32Table(crc32Table)
       IN  /\ crc32Table' = t.cache
           /\ crcOut' = crc32(buffer, t.ret)
    /\ crcIn' = buffer
    /\ UNCHANGED <<pc, caller, files, idx, cur, localHeaders, centralHeaders,
                   offset, result, notesData, disk, reply, prev>>
    /\ tableBuilds' = Counted(getCrc32Table(crc32Table))
    /\ UNCHANGED <<invocations, builds, bulk>>

Crc32Any == \E buffer \in CrcInputs : Crc32Call(buffer)

NextCrc == Crc32Any

SpecCrc == Init /\ [][NextCrc]_vars

(***************************************************************************)
(* One process in which crc32 and createZipBuffer are both called, in any  *)
(* order, one call after the other.                                        *)
(***************************************************************************)
ProcessBuffers == {<<>>, <<0>>, <<255, 1>>}

Crc32Between == pc = "idle" /\ \E buffer \in ProcessBuffers : Crc32Call(buffer)

NextProcess ==
    \/ CallAny
    \/ Crc32Between
    \/ Compress
    \/ CompressThrows
    \/ WriteHeaders
    \/ Finish
    \/ Release

SpecProcess == Init /\ [][NextProcess]_vars

(***************************************************************************)
(* crc32 and getCrc32Table followed statement by statement, for several    *)
(* invocations in one process (main.js:1864-1889).  Both functions are     *)
(* synchronous: they hold no await and no callback, so the event loop      *)
(* starts an invocation only when no other one is executing.               *)
(***************************************************************************)
InvocationBuffers == {<<>>, <<0>>, <<255, 1>>}

\* variant of CanRun: invocations take turns statement by statement
CanRunAnyTime(p) == TRUE

\* invocation number p may execute its next statement: every other
\* invocation has returned
CanRun(p) ==
    \A q \in 1..Len(invocations) : q # p => invocations[q].pc = "done"

\* crc32(buffer) is called: line 1865
InvokeCrc32(buffer) ==
    /\ Len(invocations) < MaxInvocations
    /\ CanRun(Len(invocations) + 1)
    /\ invocations' = Append(invocations,
                             [pc |-> "getTable", buffer |-> buffer,
                              crc |-> AllOnes, i |-> 0, j |-> 0,
                              found |-> FALSE, stale |-> FALSE,
                              ret |-> Null])
    /\ UNCHANGED <<crc32Table, pc, caller, files, idx, cur, localHeaders,
                   centralHeaders, offset, result, notesData, disk, reply,
                   prev, crcIn, crcOut, builds, bulk, tableBuilds>>

\* lines 1866, 1877 and 1879: the cached array is handed out when there is
\* one (found), otherwise a new array of 256 zeros is put in the cache
GetTable(p) ==
    /\ CanRun(p)
    /\ invocations[p].pc = "getTable"
    /\ IF crc32Table # Null
       THEN /\ invocations' = [invocations EXCEPT ![p].pc = "loop",
                                                  ![p].found = TRUE]
            /\ UNCHANGED <<crc32Table, tableBuilds>>
       ELSE /\ crc32Table' = [k \in 1..256 |-> <<0, 0>>]
            /\ invocations' = [invocations EXCEPT ![p].pc = "fill"]
            /\ tableBuilds' = Min(tableBuilds + 1, 2)
    /\ UNCHANGED <<pc, caller, files, idx, cur, localHeaders,
                   centralHeaders, offset, result, notesData, disk, reply,
                   prev, crcIn, crcOut, builds, bulk>>

\* lines 1880-1886: one iteration of the outer loop, crc32Table[j] = c
FillEntry(p) ==
    /\ CanRun(p)
    /\ invocations[p].pc = "fill"
    /\ LET j == invocations[p].j
       IN  /\ crc32Table' = [crc32Table EXCEPT ![j + 1] = TableEntry(j)]
           /\ invocations' =
                [invocations EXCEPT ![p].j = j + 1,
                                    ![p].pc = IF j + 1 = 256 THEN "loop"
                                              ELSE "fill"]
    /\ UNCHANGED <<pc, caller, files, idx, cur, localHeaders,
                   centralHeaders, offset, result, notesData, disk, reply,
                   prev, crcIn, crcOut, builds, bulk, tableBuilds>>

\* lines 1868-1870: one iteration of crc32's loop, reading the array that
\* table refers to, which is the cached one; stale records that the entry
\* read did not hold its final value.  Line 1872 when the loop is over.
LoopByte(p) ==
    /\ CanRun(p)
    /\ invocations[p].pc = "loop"
    /\ LET v == invocations[p]
           k == ToNat(JsAnd(JsXor(v.crc, Num(v.buffer[v.i + 1])), Num(255)))
       IN  IF v.i < Len(v.buffer)
           THEN invocations' =
                  [invocations EXCEPT
                     ![p].crc = JsXor(Ushr8(v.crc), crc32Table[k + 1]),
                     ![p].i = v.i + 1,
                     ![p].stale = v.stale
                                  \/ crc32Table[k + 1] # TableEntry(k)]
           ELSE invocations' =
                  [invocations EXCEPT
                     ![p].ret = Ushr0(JsXor(v.crc, AllOnes)),
                     ![p].pc = "done"]
    /\ UNCHANGED <<crc32Table, pc, caller, files, idx, cur, localHeaders,
                   centralHeaders, offset, result, notesData, disk, reply,
                   prev, crcIn, crcOut, builds, bulk, tableBuilds>>

InvokeAny == \E buffer \in InvocationBuffers : InvokeCrc32(buffer)

GetTableAny == \E p \in 1..Len(invocations) : GetTable(p)

FillEntryAny == \E p \in 1..Len(invocations) : FillEntry(p)

LoopByteAny == \E p \in 1..Len(invocations) : LoopByte(p)

NextTable ==
    \/ InvokeAny
    \/ GetTableAny
    \/ FillEntryAny
    \/ LoopByteAny

SpecTable == Init /\ [][NextTable]_vars

(***************************************************************************)
(* Several createZipBuffer calls followed side by side (main.js:1772-1861) *)
(* with their steps taken in any order.  localHeaders, centralHeaders,     *)
(* offset and parts are declared inside the function (lines 1774-1776,     *)
(* 1850): every call has its own; crc32Table (line 1875) is the one        *)
(* variable they share.                                                    *)
(***************************************************************************)
BuildEntry(data) == [name |-> <<97>>, data |-> data, compress |-> TRUE]

BuildLists ==
    {<<BuildEntry(Run(MaxRun))>>,
     <<BuildEntry(Run(MaxRun)), BuildEntry(<<200, 0>>)>>,
     <<BuildEntry(<<200, 0>>), BuildEntry(Run(MaxRun))>>}

\* lines 1773-1776 and the loop test: the locals of a call on fs
NewFrame(fs) ==
    [pc |-> IF fs = <<>> THEN "finish" ELSE "compress", files |-> fs,
     idx |-> 1, cur |-> Null, localHeaders |-> <<>>,
     centralHeaders |-> <<>>, offset |-> 0, result |-> Null]

\* lines 1779-1783 on the locals f
FrameCompress(f) ==
    LET file == f.files[f.idx]
        compressed == IF file.compress THEN deflateRawSync(file.data)
                      ELSE file.data
    IN  [f EXCEPT !.cur = [nameBuffer |-> BufferFromUtf8(file.name),
                           finalData |-> FinalData(file, compressed),
                           useCompression |->
                               UseCompression(file, compressed)],
                  !.pc = "headers"]

\* lines 1786-1829 on the locals f, table what getCrc32Table returns
FrameWriteHeaders(f, table) ==
    LET file == f.files[f.idx]
        crc == crc32(CrcInput(file, f.cur.finalData), table)
        finalLen == Len(f.cur.finalData)
        dataLen == Len(file.data)
        localHeader == LocalHeader(f.cur.nameBuffer, f.cur.useCompression,
                                   crc, finalLen, dataLen)
        centralHeader == CentralHeader(f.cur.nameBuffer,
                                       f.cur.useCompression, crc, finalLen,
                                       dataLen, f.offset)
    IN  IF HeaderWritesFit(f.cur.nameBuffer, crc, finalLen, dataLen,
                           f.offset)
        THEN [f EXCEPT
                !.localHeaders =
                    Append(f.localHeaders,
                           [header |-> localHeader,
                            data |-> f.cur.finalData, offset |-> f.offset]),
                !.centralHeaders = Append(f.centralHeaders, centralHeader),
                !.offset = NextOffset(f.offset, localHeader,
                                      f.cur.finalData),
                !.idx = f.idx + 1,
                !.pc = IF f.idx + 1 > Len(f.files) THEN "finish"
                       ELSE "compress"]
        ELSE [f EXCEPT !.pc = "threw"]

\* lines 1832-1860 on the locals f
FrameFinish(f) ==
    LET centralOffset == f.offset
        centralSize == CentralSize(f.centralHeaders)
    IN  IF EocdWritesFit(Len(f.files), centralSize, centralOffset)
        THEN [f EXCEPT
                !.result = concat(Parts(f.localHeaders, f.centralHeaders,
                                        Eocd(Len(f.files), centralSize,
                                             centralOffset))),
                !.pc = "returned"]
        ELSE [f EXCEPT !.pc = "threw"]

\* variant of FrameOf: offset is one variable outside the function, the
\* calls read the one the first call writes
FrameOfSharedOffset(b) == [builds[b] EXCEPT !.offset = builds[1].offset]

\* the locals call number b works on: its own
FrameOf(b) == builds[b]

\* createZipBuffer(fs) is called while other calls may be under way
StartBuild(fs) ==
    /\ Len(builds) < MaxBuilds
    /\ builds' = Append(builds, NewFrame(fs))
    /\ UNCHANGED <<crc32Table, pc, caller, files, idx, cur, localHeaders,
                   centralHeaders, offset, result, notesData, disk, reply,
                   prev, crcIn, crcOut, invocations, bulk,
                   tableBuilds>>

BuildCompress(b) ==
    /\ builds[b].pc = "compress"
    /\ builds' = [builds EXCEPT ![b] = FrameCompress(FrameOf(b))]
    /\ UNCHANGED <<crc32Table, pc, caller, files, idx, cur, localHeaders,
                   centralHeaders, offset, result, notesData, disk, reply,
                   prev, crcIn, crcOut, invocations, bulk,
                   tableBuilds>>

\* line 1781 throwing in call b
BuildCompressThrows(b) ==
    /\ builds[b].pc = "compress"
    /\ builds[b].files[builds[b].idx].compress
    /\ builds' = [builds EXCEPT ![b].pc = "threw"]
    /\ UNCHANGED <<crc32Table, pc, caller, files, idx, cur, localHeaders,
                   centralHeaders, offset, result, notesData, disk, reply,
                   prev, crcIn, crcOut, invocations, bulk,
                   tableBuilds>>

BuildWriteHeaders(b) ==
    /\ builds[b].pc = "headers"
    /\ LET t == getCrc32Table(crc32Table)
       IN  /\ crc32Table' = t.cache
           /\ tableBuilds' = Counted(t)
           /\ builds' = [builds EXCEPT
                           ![b] = FrameWriteHeaders(FrameOf(b), t.ret)]
    /\ UNCHANGED <<pc, caller, files, idx, cur, localHeaders,
                   centralHeaders, offset, result, notesData, disk, reply,
                   prev, crcIn, crcOut, invocations, bulk>>

BuildFinish(b) ==
    /\ builds[b].pc = "finish"
    /\ builds' = [builds EXCEPT ![b] = FrameFinish(FrameOf(b))]
    /\ UNCHANGED <<crc32Table, pc, caller, files, idx, cur, localHeaders,
                   centralHeaders, offset, result, notesData, disk, reply,
                   prev, crcIn, crcOut, invocations, bulk,
                   tableBuilds>>

StartBuildAny == \E fs \in BuildLists : StartBuild(fs)

BuildCompressAny == \E b \in 1..Len(builds) : BuildCompress(b)

BuildCompressThrowsAny == \E b \in 1..Len(builds) : BuildCompressThrows(b)

BuildWriteHeadersAny == \E b \in 1..Len(builds) : BuildWriteHeaders(b)

BuildFinishAny == \E b \in 1..Len(builds) : BuildFinish(b)

NextBuilds ==
    \/ StartBuildAny
    \/ BuildCompressAny
    \/ BuildCompressThrowsAny
    \/ BuildWriteHeadersAny
    \/ BuildFinishAny

SpecBuilds == Init /\ [][NextBuilds]_vars

(***************************************************************************)
(* createZipBuffer calls and crc32 invocations of one process, each        *)
(* running to its end before the next one starts: both are synchronous     *)
(* code, which the event loop does not interrupt, so a step that can be    *)
(* taken is taken (weak fairness of every step).                           *)
(***************************************************************************)
TermLists == {fs \in EntryLists : Len(fs) <= 1} \cup BuildLists

NoInvocationRuns ==
    \A q \in 1..Len(invocations) : invocations[q].pc = "done"

CallTerm ==
    /\ pc = "idle"
    /\ NoInvocationRuns
    /\ \E fs \in TermLists : Call(fs)

InvokeTerm == pc = "idle" /\ InvokeAny

GetTableTerm == pc = "idle" /\ GetTableAny

FillEntryTerm == pc = "idle" /\ FillEntryAny

LoopByteTerm == pc = "idle" /\ LoopByteAny

NextTerm ==
    \/ CallTerm
    \/ Compress
    \/ CompressThrows
    \/ WriteHeaders
    \/ Finish
    \/ Release
    \/ InvokeTerm
    \/ GetTableTerm
    \/ FillEntryTerm
    \/ LoopByteTerm

SpecTerm ==
    /\ Init
    /\ [][NextTerm]_vars
    /\ WF_vars(Compress \/ CompressThrows)
    /\ WF_vars(WriteHeaders)
    /\ WF_vars(Finish)
    /\ WF_vars(GetTableTerm)
    /\ WF_vars(FillEntryTerm)
    /\ WF_vars(LoopByteTerm)

(***************************************************************************)
(* createZipBuffer called on a list of n equal entries, n near the largest *)
(* value the 16-bit count fields take (main.js:1843-1844).  The list and   *)
(* the buffer are too long to hold; the loop of lines 1778-1829 is         *)
(* summarised by what n equal iterations leave in offset and in            *)
(* centralHeaders, and bulk keeps the outcome and the end record.          *)
(***************************************************************************)
UInt16Max == 65535

BulkCounts == (UInt16Max - MaxOver)..(UInt16Max + MaxOver)

CallBulk(n, e) ==
    LET nameBuffer == BufferFromUtf8(e.name)
        compressed == IF e.compress THEN deflateRawSync(e.data) ELSE e.data
        finalData == FinalData(e, compressed)
        table == getCrc32Table(crc32Table)
        crc == crc32(CrcInput(e, finalData), table.ret)
        step == 30 + Len(nameBuffer) + Len(finalData)
        centralOffset == n * step
        centralSize == n * (46 + Len(nameBuffer))
        fits == /\ HeaderWritesFit(nameBuffer, crc, Len(finalData),
                                   Len(e.data), (n - 1) * step)
                /\ EocdWritesFit(n, centralSize, centralOffset)
    IN  /\ crc32Table' = table.cache
        /\ tableBuilds' = Counted(table)
        /\ bulk' = [count |-> n, entry |-> e,
                    outcome |-> IF fits THEN "returned" ELSE "threw",
                    eocd |-> IF fits
                             THEN Eocd(n, centralSize, centralOffset)
                             ELSE Null,
                    size |-> IF fits THEN centralOffset + centralSize + 22
                             ELSE 0]
        /\ UNCHANGED <<pc, caller, files, idx, cur, localHeaders,
                       centralHeaders, offset, result, notesData, disk,
                       reply, prev, crcIn, crcOut, invocations, builds>>

CallBulkAny ==
    bulk = Null /\ \E n \in BulkCounts : \E e \in Entries : CallBulk(n, e)

\* the caller is done with what the call returned or threw
ReleaseBulk ==
    /\ bulk # Null
    /\ bulk' = Null
    /\ UNCHANGED <<crc32Table, pc, caller, files, idx, cur, localHeaders,
                   centralHeaders, offset, result, notesData, disk, reply,
                   prev, crcIn, crcOut, invocations, builds,
                   tableBuilds>>

NextBulk ==
    \/ CallBulkAny
    \/ ReleaseBulk

SpecBulk == Init /\ [][NextBulk]_vars

(***************************************************************************)
(* The export-epub handler (main.js:1560-1769).  Strings are sequences of  *)
(* UTF-16 code units.  A generated document is cut to its first MaxText    *)
(* code units: what follows them depends on bookTitle, isDark, Date.now()  *)
(* and the notes' texts, which the archive writer only sees as bytes.      *)
(***************************************************************************)
\* 'mimetype' (line 1574)
MimetypeName == <<109, 105, 109, 101, 116, 121, 112, 101>>

\* 'application/epub+zip' (line 1574)
MimetypeContent ==
    <<97, 112, 112, 108, 105, 99, 97, 116, 105, 111, 110, 47, 101, 112, 117,
      98, 43, 122, 105, 112>>

\* 'META-INF/container.xml' (line 1577)
ContainerName ==
    <<77, 69, 84, 65, 45, 73, 78, 70, 47, 99, 111, 110, 116, 97, 105, 110,
      101, 114, 46, 120, 109, 108>>

\* 'OEBPS/styles.css' (line 1631)
StylesName ==
    <<79, 69, 66, 80, 83, 47, 115, 116, 121, 108, 101, 115, 46, 99, 115, 115>>

\* `OEBPS/${titlePageFile}` (lines 1636, 1649)
TitlePageName ==
    <<79, 69, 66, 80, 83, 47, 116, 105, 116, 108, 101, 112, 97, 103, 101, 46,
      120, 104, 116, 109, 108>>

\* 'OEBPS/nav.xhtml' (line 1738)
NavName ==
    <<79, 69, 66, 80, 83, 47, 110, 97, 118, 46, 120, 104, 116, 109, 108>>

\* 'OEBPS/content.opf' (line 1759)
OpfName ==
    <<79, 69, 66, 80, 83, 47, 99, 111, 110, 116, 101, 110, 116, 46, 111, 112,
      102>>

\* 'OEBPS/images/img', the prefix of an image's name (lines 1667, 1669)
ImagesDir ==
    <<79, 69, 66, 80, 83, 47, 105, 109, 97, 103, 101, 115, 47, 105, 109, 103>>

\* 'OEBPS/audio/audio', the prefix of a recording's name (lines 1684, 1686)
AudioDir ==
    <<79, 69, 66, 80, 83, 47, 97, 117, 100, 105, 111, 47, 97, 117, 100, 105,
      111>>

\* 'OEBPS/chapter', the prefix of a chapter's name (lines 1656, 1712)
ChapterPrefix == <<79, 69, 66, 80, 83, 47, 99, 104, 97, 112, 116, 101, 114>>

\* '.xhtml' (line 1657)
XhtmlSuffix == <<46, 120, 104, 116, 109, 108>>

\* '.'
Dot == <<46>>

\* 'jpeg'
Jpeg == <<106, 112, 101, 103>>

\* 'jpg'
Jpg == <<106, 112, 103>>

\* 'png'
Png == <<112, 110, 103>>

\* 'svg+xml'
SvgXml == <<115, 118, 103, 43, 120, 109, 108>>

\* 'mpeg'
Mpeg == <<109, 112, 101, 103>>

\* 'mp3'
Mp3 == <<109, 112, 51>>

\* 'mp4'
Mp4 == <<109, 112, 52>>

\* 'm4a'
M4a == <<109, 52, 97>>

\* the first code units of every generated XML document (lines 1577, 1637, 1696, 1724, 1742)
XmlStart ==
    <<60, 63, 120, 109, 108, 32, 118, 101, 114, 115, 105, 111, 110, 61, 34,
      49, 46, 48, 34>>

\* the first code units of cssContent (lines 1597-1599)
CssStart ==
    <<10, 98, 111, 100, 121, 32, 123, 10, 32, 32, 102, 111, 110, 116, 45,
      102, 97, 109, 105, 108, 121>>

Abbrev(str) == SubSeq(str, 1, Min(Len(str), MaxText))

\* variant of Decimal: the note's position not used, every index printed 0
DecimalZero(i) == <<48>>

\* String(i) for an index i >= 0
RECURSIVE Decimal(_)
Decimal(i) ==
    IF i < 10 THEN <<48 + i>>
    ELSE Decimal(i \div 10) \o <<48 + (i % 10)>>

\* a content argument of addFile: a string, or a Buffer
Text(str) == [isBuffer |-> FALSE, value |-> str]
Buf(bytes) == [isBuffer |-> TRUE, value |-> bytes]

\* lines 1568-1571, fs the files array
addFile(fs, name, content, compress) ==
    Append(fs, [name |-> name,
                data |-> IF content.isBuffer THEN content.value
                         ELSE BufferFromUtf8(content.value),
                compress |-> compress])

\* the value of a base64 digit, 64 for any other code unit
Base64Value(c) ==
    IF c >= 65 /\ c <= 90 THEN c - 65
    ELSE IF c >= 97 /\ c <= 122 THEN c - 71
    ELSE IF c >= 48 /\ c <= 57 THEN c + 4
    ELSE IF c = 43 \/ c = 45 THEN 62
    ELSE IF c = 47 \/ c = 95 THEN 63
    ELSE 64

\* the digits of text up to the first '='
RECURSIVE Base64Digits(_, _)
Base64Digits(text, i) ==
    IF i > Len(text) \/ text[i] = 61 THEN <<>>
    ELSE IF Base64Value(text[i]) = 64 THEN Base64Digits(text, i + 1)
    ELSE <<Base64Value(text[i])>> \o Base64Digits(text, i + 1)

RECURSIVE Base64Bytes(_, _)
Base64Bytes(d, i) ==
    LET left == Len(d) - i + 1
        b1 == d[i] * 4 + d[i + 1] \div 16
        b2 == (d[i + 1] % 16) * 16 + d[i + 2] \div 4
        b3 == (d[i + 2] % 4) * 64 + d[i + 3]
    IN  IF left >= 4 THEN <<b1, b2, b3>> \o Base64Bytes(d, i + 4)
        ELSE IF left = 3 THEN <<b1, b2>>
        ELSE IF left = 2 THEN <<b1>>
        ELSE <<>>

\* Buffer.from(text, 'base64') (lines 1668, 1685)
BufferFromBase64(text) == Base64Bytes(Base64Digits(text, 1), 1)

\* a note's imageDataUrl or audioDataUrl: absent (undefined, null or ''),
\* a string 'data:<major>/<subtype>;base64,<data>', or a truthy value that
\* is no string
Absent == [kind |-> "absent", major |-> "", subtype |-> <<>>, data |-> <<>>]
NonString ==
    [kind |-> "object", major |-> "", subtype |-> <<>>, data |-> <<>>]
DataUrl(major, subtype, data) ==
    [kind |-> "string", major |-> major, subtype |-> subtype, data |-> data]

\* \w
IsWordChar(c) ==
    \/ c >= 48 /\ c <= 57
    \/ c >= 65 /\ c <= 90
    \/ c >= 97 /\ c <= 122
    \/ c = 95

\* line 1664: /^data:image\/(\w+);base64,(.+)$/
ImageMatch(url) ==
    /\ url.major = "image"
    /\ url.subtype # <<>>
    /\ \A k \in 1..Len(url.subtype) : IsWordChar(url.subtype[k])
    /\ url.data # <<>>

\* line 1679: /^data:audio\/([^;]+);base64,(.+)$/
AudioMatch(url) ==
    /\ url.major = "audio"
    /\ url.subtype # <<>>
    /\ \A k \in 1..Len(url.subtype) : url.subtype[k] # 59
    /\ url.data # <<>>

\* line 1666
ImageExt(subtype) == IF subtype = Jpeg THEN Jpg ELSE subtype

\* lines 1681-1683
AudioExt(subtype) ==
    IF subtype = Mpeg THEN Mp3 ELSE IF subtype = Mp4 THEN M4a ELSE subtype

\* variant of HeadFiles: the container document ahead of the media type
HeadFilesContainerFirst ==
    addFile(addFile(addFile(addFile(<<>>,
        ContainerName, Text(Abbrev(XmlStart)), TRUE),
        MimetypeName, Text(MimetypeContent), FALSE),
        StylesName, Text(Abbrev(CssStart)), TRUE),
        TitlePageName, Text(Abbrev(XmlStart)), TRUE)

\* lines 1574-1649: the files array when the chapter loop is entered
HeadFiles ==
    addFile(addFile(addFile(addFile(<<>>,
        MimetypeName, Text(MimetypeContent), FALSE),
        ContainerName, Text(Abbrev(XmlStart)), TRUE),
        StylesName, Text(Abbrev(CssStart)), TRUE),
        TitlePageName, Text(Abbrev(XmlStart)), TRUE)

\* lines 1663-1675 for note number i (from 0): the files array afterwards,
\* or the TypeError of calling .match on a value that has none
ImageFiles(fs, url, i) ==
    IF url.kind = "absent" THEN [threw |-> FALSE, files |-> fs]
    ELSE IF url.kind = "object" THEN [threw |-> TRUE, files |-> fs]
    ELSE IF ImageMatch(url)
    THEN [threw |-> FALSE,
          files |-> addFile(fs, ImagesDir \o Decimal(i) \o Dot
                                \o ImageExt(url.subtype),
                            Buf(BufferFromBase64(url.data)), TRUE)]
    ELSE [threw |-> FALSE, files |-> fs]

\* lines 1678-1692
AudioFiles(fs, url, i) ==
    IF url.kind = "absent" THEN [threw |-> FALSE, files |-> fs]
    ELSE IF url.kind = "object" THEN [threw |-> TRUE, files |-> fs]
    ELSE IF AudioMatch(url)
    THEN [threw |-> FALSE,
          files |-> addFile(fs, AudioDir \o Decimal(i) \o Dot
                                \o AudioExt(url.subtype),
                            Buf(BufferFromBase64(url.data)), TRUE)]
    ELSE [threw |-> FALSE, files |-> fs]

\* lines 1654-1715: the chapter loop, v its variables files and i
RECURSIVE Chapters(_, _)
Chapters(notes, v) ==
    IF v.i >= Len(notes) THEN [threw |-> FALSE, files |-> v.files]
    ELSE LET note == notes[v.i + 1]
             img == ImageFiles(v.files, note.imageDataUrl, v.i)
             aud == AudioFiles(img.files, note.audioDataUrl, v.i)
         IN  IF img.threw THEN img
             ELSE IF aud.threw THEN aud
             ELSE Chapters(notes,
                    [files |-> addFile(aud.files,
                                       ChapterPrefix \o Decimal(v.i)
                                       \o XhtmlSuffix,
                                       Text(Abbrev(XmlStart)), TRUE),
                     i |-> v.i + 1])

\* lines 1565-1759: the files array handed to createZipBuffer, or the throw
\* that ends the assembly; notesData.length of a notesData that is null or
\* undefined throws at line 1654
EpubFiles(nd) ==
    IF ~nd.isArray THEN [threw |-> TRUE, files |-> HeadFiles]
    ELSE LET c == Chapters(nd.notes, [files |-> HeadFiles, i |-> 0])
         IN  IF c.threw THEN c
             ELSE [threw |-> FALSE,
                   files |-> addFile(addFile(c.files,
                       NavName, Text(Abbrev(XmlStart)), TRUE),
                       OpfName, Text(Abbrev(XmlStart)), TRUE)]

\* 'YWFhYWFh', the base64 text of six bytes 97; 'yAA=', of the bytes 200, 0
SixA == <<89, 87, 70, 104, 89, 87, 70, 104>>
TwoBytes == <<121, 65, 65, 61>>

ImageUrls ==
    {Absent, NonString, DataUrl("image", Png, SixA),
     DataUrl("image", Jpeg, TwoBytes), DataUrl("image", SvgXml, SixA)}

AudioUrls == {Absent, DataUrl("audio", Mpeg, TwoBytes)}

Notes == [imageDataUrl : ImageUrls, audioDataUrl : AudioUrls]

\* a note without media and a note with a picture and a recording
PlainNotes ==
    {[imageDataUrl |-> Absent, audioDataUrl |-> Absent],
     [imageDataUrl |-> DataUrl("image", Png, SixA),
      audioDataUrl |-> DataUrl("audio", Mpeg, TwoBytes)]}

\* no array, no note, one note of any kind, several notes of the two plain
\* kinds
NotesInputs ==
    {[isArray |-> FALSE, notes |-> <<>>]}
    \cup {[isArray |-> TRUE, notes |-> ns] :
            ns \in {<<>>} \cup [1..1 -> Notes]
                   \cup UNION {[1..n -> PlainNotes] : n \in 2..MaxNotes}}

(***************************************************************************)
(* The later text of the handler (main.js:3991-4207): a picture is         *)
(* converted to JPEG where nativeImage can read it and always named        *)
(* img<i>.jpg, recordings are left out.  The rest is the text of the       *)
(* earlier handler.                                                        *)
(***************************************************************************)
\* what convertToJpeg (lines 3996-4010) can hand back for a data URL: null,
\* or the data URL of the JPEG nativeImage produced
JpegOutcomes == {Absent, DataUrl("image", Jpeg, TwoBytes)}

\* lines 4109-4130 for note number i, converted what convertToJpeg gave
ImageFilesJpeg(fs, url, i, converted) ==
    IF url.kind = "absent" THEN [threw |-> FALSE, files |-> fs]
    ELSE IF url.kind = "object" THEN [threw |-> TRUE, files |-> fs]
    ELSE LET imageDataToUse ==
                 IF url.major = "image" /\ converted # Absent
                 THEN converted ELSE url
         IN  IF ImageMatch(imageDataToUse)
             THEN [threw |-> FALSE,
                   files |-> addFile(fs, ImagesDir \o Decimal(i) \o Dot
                                         \o Jpg,
                                     Buf(BufferFromBase64(
                                             imageDataToUse.data)), TRUE)]
             ELSE [threw |-> FALSE, files |-> fs]

\* lines 4101-4153: the chapter loop, convs[k] what convertToJpeg gives for
\* the picture of note k
RECURSIVE ChaptersJpeg(_, _, _)
ChaptersJpeg(notes, convs, v) ==
    IF v.i >= Len(notes) THEN [threw |-> FALSE, files |-> v.files]
    ELSE LET note == notes[v.i + 1]
             img == ImageFilesJpeg(v.files, note.imageDataUrl, v.i,
                                   convs[v.i + 1])
         IN  IF img.threw THEN img
             ELSE ChaptersJpeg(notes, convs,
                    [files |-> addFile(img.files,
                                       ChapterPrefix \o Decimal(v.i)
                                       \o XhtmlSuffix,
                                       Text(Abbrev(XmlStart)), TRUE),
                     i |-> v.i + 1])

\* lines 4013-4197
EpubFilesJpeg(nd, convs) ==
    IF ~nd.isArray THEN [threw |-> TRUE, files |-> HeadFiles]
    ELSE LET c == ChaptersJpeg(nd.notes, convs,
                               [files |-> HeadFiles, i |-> 0])
         IN  IF c.threw THEN c
             ELSE [threw |-> FALSE,
                   files |-> addFile(addFile(c.files,
                       NavName, Text(Abbrev(XmlStart)), TRUE),
                       OpfName, Text(Abbrev(XmlStart)), TRUE)]

\* the assembly of either handler has ended: in the catch of the handler
\* when it threw, in the call of createZipBuffer otherwise
Assembled(nd, a) ==
    /\ pc = "idle"
    /\ notesData' = nd
    /\ disk' = Null
    /\ IF a.threw
       THEN /\ reply' = "failure"
            /\ UNCHANGED <<pc, caller, files, idx, cur, localHeaders,
                           centralHeaders, offset, result>>
       ELSE /\ reply' = "none"
            /\ Enter(a.files, "epub")
    /\ UNCHANGED <<crc32Table, prev, crcIn, crcOut>>
    /\ UNCHANGED <<invocations, builds, bulk, tableBuilds>>

\* the later handler is invoked with notesData = nd: lines 3992-4200 up to
\* the call of createZipBuffer, or up to the catch of lines 4204-4206
ExportEpubJpeg(nd, convs) == Assembled(nd, EpubFilesJpeg(nd, convs))

ExportEpubJpegAny ==
    /\ pc = "idle"
    /\ \E nd \in NotesInputs :
         \E convs \in [1..Len(nd.notes) -> JpegOutcomes] :
           ExportEpubJpeg(nd, convs)

\* the handler is invoked with notesData = nd and a savePath at which no
\* file exists: lines 1561-1762 up to the call of createZipBuffer, or up to
\* the catch of lines 1766-1768 when the assembly throws
ExportEpub(nd) == Assembled(nd, EpubFiles(nd))

ExportEpubAny == pc = "idle" /\ \E nd \in NotesInputs : ExportEpub(nd)

\* lines 1763-1765: fs.writeFileSync(savePath, zipBuffer) returns
EpubWrite ==
    /\ caller = "epub"
    /\ pc = "returned"
    /\ disk' = result
    /\ reply' = "success"
    /\ Leave
    /\ UNCHANGED <<crc32Table, notesData, prev, crcIn, crcOut>>
    /\ UNCHANGED <<invocations, builds, bulk, tableBuilds>>

\* line 1763 with fs.writeFileSync throwing: the file is not there or holds
\* part of the buffer; lines 1766-1768 answer
EpubWriteThrows ==
    /\ caller = "epub"
    /\ pc = "returned"
    /\ \E n \in {0, Len(result) \div 2} : disk' = SubSeq(result, 1, n)
    /\ reply' = "failure"
    /\ Leave
    /\ UNCHANGED <<crc32Table, notesData, prev, crcIn, crcOut>>
    /\ UNCHANGED <<invocations, builds, bulk, tableBuilds>>

\* variant of EpubCatch: nothing catches, the handler's promise rejects
EpubCatchRejects ==
    /\ caller = "epub"
    /\ pc = "threw"
    /\ reply' = "rejected"
    /\ Leave
    /\ UNCHANGED <<crc32Table, notesData, disk, prev, crcIn, crcOut>>
    /\ UNCHANGED <<invocations, builds, bulk, tableBuilds>>

\* lines 1766-1768 after createZipBuffer threw
EpubCatch ==
    /\ caller = "epub"
    /\ pc = "threw"
    /\ reply' = "failure"
    /\ Leave
    /\ UNCHANGED <<crc32Table, notesData, disk, prev, crcIn, crcOut>>
    /\ UNCHANGED <<invocations, builds, bulk, tableBuilds>>

NextEpub ==
    \/ ExportEpubAny
    \/ ExportEpubJpegAny
    \/ Compress
    \/ CompressThrows
    \/ WriteHeaders
    \/ Finish
    \/ EpubWrite
    \/ EpubWriteThrows
    \/ EpubCatch

SpecEpub == Init /\ [][NextEpub]_vars

(***************************************************************************)
(* A ZIP reader, used to state what the written archive means: the end     *)
(* record in the last 22 bytes, the central directory it points to, the    *)
(* local header each central header points to, the stored bytes, inflated  *)
(* when the method is 8, and the CRC-32 check of the result.               *)
(***************************************************************************)
ByteAt(buf, off) == IF off >= 0 /\ off < Len(buf) THEN buf[off + 1] ELSE 0

ReadUInt16LE(buf, off) == ByteAt(buf, off) + 256 * ByteAt(buf, off + 1)

\* a 32-bit field as a <<hi, lo>> pair, and as a natural
ReadWordLE(buf, off) == <<ReadUInt16LE(buf, off + 2), ReadUInt16LE(buf, off)>>

\* (a field of 2^31 or more, which no archive of the model holds, reads as
\* 2^31 - 1)
ReadUInt32LE(buf, off) ==
    LET w == ReadWordLE(buf, off)
    IN  IF w[1] < 32768 THEN ToNat(w) ELSE 2147483647

Slice(buf, off, n) == SubSeq(buf, off + 1, off + n)

\* the reflected CRC-32 of ISO 3309, computed bit by bit without a table:
\* polynomial 0xEDB88320, initial value 0xFFFFFFFF, final XOR 0xFFFFFFFF
WordXor(a, b) == <<Xor16(a[1], b[1]), Xor16(a[2], b[2])>>

WordShr1(a) == <<a[1] \div 2, (a[1] % 2) * 32768 + (a[2] \div 2)>>

RECURSIVE RefBits(_)
RefBits(v) ==
    IF v.j = 8 THEN v.r
    ELSE RefBits([r |-> IF v.r[2] % 2 = 1 THEN WordXor(WordShr1(v.r), Poly)
                        ELSE WordShr1(v.r),
                  j |-> v.j + 1])

RECURSIVE RefBytes(_, _)
RefBytes(bytes, v) ==
    IF v.i > Len(bytes) THEN v.r
    ELSE RefBytes(bytes,
                  [r |-> RefBits([r |-> WordXor(v.r, <<0, bytes[v.i]>>),
                                  j |-> 0]),
                   i |-> v.i + 1])

Crc32Reference(bytes) ==
    WordXor(RefBytes(bytes, [r |-> AllOnes, i |-> 1]), AllOnes)

\* bit p (from 0) of a DEFLATE stream: bytes are filled from their low bit
BitOf(buf, p) == (ByteAt(buf, p \div 8) \div Pow2(p % 8)) % 2

RECURSIVE BitsLsb(_, _, _)
BitsLsb(buf, p, n) ==
    IF n = 0 THEN 0 ELSE BitOf(buf, p) + 2 * BitsLsb(buf, p + 1, n - 1)

RECURSIVE BitsMsb(_, _, _)
BitsMsb(buf, p, n) ==
    IF n = 0 THEN 0
    ELSE BitOf(buf, p) * Pow2(n - 1) + BitsMsb(buf, p + 1, n - 1)

\* the fixed literal/length symbol at bit p and the length of its code
FixedSymbol(buf, p) ==
    LET v7 == BitsMsb(buf, p, 7)
        v8 == BitsMsb(buf, p, 8)
        v9 == BitsMsb(buf, p, 9)
    IN  IF v7 <= 23 THEN [sym |-> 256 + v7, bits |-> 7]
        ELSE IF v8 >= 48 /\ v8 <= 191 THEN [sym |-> v8 - 48, bits |-> 8]
        ELSE IF v8 >= 192 /\ v8 <= 199 THEN [sym |-> 280 + (v8 - 192), bits |-> 8]
        ELSE [sym |-> 144 + (v9 - 400), bits |-> 9]

\* n bytes copied from dist bytes back, one byte at a time
CopyBack(out, dist, n) ==
    out \o Tabulate([k \in 1..n |-> out[Len(out) - dist + 1 + ((k - 1) % dist)]],
                    n)

\* the symbols of one fixed-Huffman block; st.p the bit position, st.out the
\* bytes produced, st.ok false once the stream is found malformed
RECURSIVE InflateFixed(_, _)
InflateFixed(buf, st) ==
    IF ~st.ok \/ st.p + 7 > 8 * Len(buf) THEN [st EXCEPT !.ok = FALSE]
    ELSE
    LET f == FixedSymbol(buf, st.p)
        q == st.p + f.bits
    IN  IF f.sym < 256
        THEN InflateFixed(buf, [st EXCEPT !.p = q, !.out = Append(@, f.sym)])
        ELSE IF f.sym = 256 THEN [st EXCEPT !.p = q]
        ELSE IF f.sym > 285 THEN [st EXCEPT !.ok = FALSE]
        ELSE
        LET i == f.sym - 256
            len == LengthBase[i] + BitsLsb(buf, q, LengthExtra[i])
            q2 == q + LengthExtra[i]
            j == BitsMsb(buf, q2, 5) + 1
        IN  IF j > Len(DistBase) THEN [st EXCEPT !.ok = FALSE]
            ELSE
            LET dist == DistBase[j] + BitsLsb(buf, q2 + 5, DistExtra[j])
                q3 == q2 + 5 + DistExtra[j]
            IN  IF dist > Len(st.out) \/ q3 > 8 * Len(buf)
                THEN [st EXCEPT !.ok = FALSE]
                ELSE InflateFixed(buf, [st EXCEPT !.p = q3,
                                          !.out = CopyBack(@, dist, len)])

\* the blocks of a raw DEFLATE stream: fixed-Huffman and stored blocks are
\* read, a dynamic block (which the writer never receives here) is refused
RECURSIVE InflateBlocks(_, _)
InflateBlocks(buf, st) ==
    IF ~st.ok \/ st.p + 3 > 8 * Len(buf) THEN [st EXCEPT !.ok = FALSE]
    ELSE
    LET final == BitOf(buf, st.p)
        type == BitsLsb(buf, st.p + 1, 2)
        body == IF type = 1
                THEN InflateFixed(buf, [st EXCEPT !.p = st.p + 3])
                ELSE IF type = 0
                THEN LET at == ((st.p + 3 + 7) \div 8)
                         n == ReadUInt16LE(buf, at)
                     IN  IF at + 4 + n > Len(buf)
                            \/ ReadUInt16LE(buf, at + 2) # 65535 - n
                         THEN [st EXCEPT !.ok = FALSE]
                         ELSE [st EXCEPT !.p = 8 * (at + 4 + n),
                                         !.out = @ \o Slice(buf, at + 4, n)]
                ELSE [st EXCEPT !.ok = FALSE]
    IN  IF ~body.ok \/ final = 1 THEN body ELSE InflateBlocks(buf, body)

\* inflateRaw: ok when the stream is well formed and ends in the last byte
Inflate(buf) ==
    LET st == InflateBlocks(buf, [p |-> 0, out |-> <<>>, ok |-> TRUE])
    IN  [ok |-> st.ok /\ (st.p + 7) \div 8 = Len(buf), out |-> st.out]

\* UTF-8 bytes back to UTF-16 code units (well-formed input)
RECURSIVE Utf8Decode(_, _)
Utf8Decode(b, i) ==
    IF i > Len(b) THEN <<>>
    ELSE LET c == b[i]
             T(k) == ByteAt(b, i - 1 + k) % 64
         IN  IF c < 128 THEN <<c>> \o Utf8Decode(b, i + 1)
             ELSE IF c < 224
             THEN <<(c % 32) * 64 + T(1)>> \o Utf8Decode(b, i + 2)
             ELSE IF c < 240
             THEN <<(c % 16) * 4096 + T(1) * 64 + T(2)>> \o Utf8Decode(b, i + 3)
             ELSE LET cp == (c % 8) * 262144 + T(1) * 4096 + T(2) * 64 + T(3)
                  IN  <<55296 + ((cp - 65536) \div 1024),
                        56320 + ((cp - 65536) % 1024)>>
                      \o Utf8Decode(b, i + 4)

\* the end-of-central-directory record of an archive
EocdAt(buf) == Len(buf) - 22

EocdOf(buf) ==
    LET e == EocdAt(buf)
    IN  [sig |-> ReadUInt32LE(buf, e),
         disk |-> ReadUInt16LE(buf, e + 4),
         cdDisk |-> ReadUInt16LE(buf, e + 6),
         diskCount |-> ReadUInt16LE(buf, e + 8),
         count |-> ReadUInt16LE(buf, e + 10),
         cdSize |-> ReadUInt32LE(buf, e + 12),
         cdOffset |-> ReadUInt32LE(buf, e + 16),
         commentLen |-> ReadUInt16LE(buf, e + 20)]

\* the central directory header at byte offset pos
CentralAt(buf, pos) ==
    [at |-> pos,
     sig |-> ReadUInt32LE(buf, pos),
     madeBy |-> ReadUInt16LE(buf, pos + 4),
     needed |-> ReadUInt16LE(buf, pos + 6),
     flags |-> ReadUInt16LE(buf, pos + 8),
     method |-> ReadUInt16LE(buf, pos + 10),
     time |-> ReadUInt16LE(buf, pos + 12),
     date |-> ReadUInt16LE(buf, pos + 14),
     crc |-> ReadWordLE(buf, pos + 16),
     csize |-> ReadUInt32LE(buf, pos + 20),
     usize |-> ReadUInt32LE(buf, pos + 24),
     nameLen |-> ReadUInt16LE(buf, pos + 28),
     extraLen |-> ReadUInt16LE(buf, pos + 30),
     commentLen |-> ReadUInt16LE(buf, pos + 32),
     diskStart |-> ReadUInt16LE(buf, pos + 34),
     intAttr |-> ReadUInt16LE(buf, pos + 36),
     extAttr |-> ReadUInt32LE(buf, pos + 38),
     localOffset |-> ReadUInt32LE(buf, pos + 42),
     name |-> Slice(buf, pos + 46, ReadUInt16LE(buf, pos + 28)),
     size |-> 46 + ReadUInt16LE(buf, pos + 28) + ReadUInt16LE(buf, pos + 30)
              + ReadUInt16LE(buf, pos + 32)]

\* the local file header at byte offset pos
LocalAt(buf, pos) ==
    [at |-> pos,
     sig |-> ReadUInt32LE(buf, pos),
     needed |-> ReadUInt16LE(buf, pos + 4),
     flags |-> ReadUInt16LE(buf, pos + 6),
     method |-> ReadUInt16LE(buf, pos + 8),
     time |-> ReadUInt16LE(buf, pos + 10),
     date |-> ReadUInt16LE(buf, pos + 12),
     crc |-> ReadWordLE(buf, pos + 14),
     csize |-> ReadUInt32LE(buf, pos + 18),
     usize |-> ReadUInt32LE(buf, pos + 22),
     nameLen |-> ReadUInt16LE(buf, pos + 26),
     extraLen |-> ReadUInt16LE(buf, pos + 28),
     name |-> Slice(buf, pos + 30, ReadUInt16LE(buf, pos + 26)),
     dataAt |-> pos + 30 + ReadUInt16LE(buf, pos + 26)
                + ReadUInt16LE(buf, pos + 28)]

\* the central headers found by walking count records from offset pos; the
\* walk stops at a record that does not fit or does not carry the signature
RECURSIVE CentralWalk(_, _, _)
CentralWalk(buf, pos, count) ==
    IF count = 0 \/ pos + 46 > Len(buf)
       \/ ReadUInt32LE(buf, pos) # CentralSig
    THEN <<>>
    ELSE LET c == CentralAt(buf, pos)
         IN  <<c>> \o CentralWalk(buf, pos + c.size, count - 1)

CentralDirectory(buf) ==
    CentralWalk(buf, EocdOf(buf).cdOffset, EocdOf(buf).count)

\* what the reader extracts for one central header
Extract(buf, c) ==
    LET l == LocalAt(buf, c.localOffset)
        stored == Slice(buf, l.dataAt, c.csize)
        inf == IF c.method = MethodDeflate THEN Inflate(stored)
               ELSE [ok |-> c.method = MethodStore, out |-> stored]
    IN  [ok |-> /\ c.localOffset + 30 <= Len(buf)
                /\ l.sig = LocalSig
                /\ l.dataAt + c.csize <= Len(buf)
                /\ inf.ok
                /\ Len(inf.out) = c.usize
                /\ Crc32Reference(inf.out) = c.crc,
         name |-> Utf8Decode(c.name, 1),
         payload |-> inf.out]

\* the archive as a reader sees it
Unzip(buf) ==
    LET ok0 == Len(buf) >= 22 /\ EocdOf(buf).sig = EocdSig
        cd == IF ok0 THEN CentralDirectory(buf) ELSE <<>>
        xs == [k \in 1..Len(cd) |-> Extract(buf, cd[k])]
    IN  [ok |-> /\ ok0
                /\ Len(cd) = EocdOf(buf).count
                /\ \A k \in 1..Len(cd) : xs[k].ok,
         entries |-> [k \in 1..Len(cd) |->
                        [name |-> xs[k].name, payload |-> xs[k].payload]]]

(***************************************************************************)
(* Properties of createZipBuffer, on the buffer a direct call returned.    *)
(***************************************************************************)
Returned == pc = "returned"

NameBytes(i) == BufferFromUtf8(files[i].name)

\* the central directory of the returned buffer
Cd == CentralDirectory(result)

\* where a reader that scans the local headers one after the other from
\* byte 0 finds the i-th of them
RECURSIVE ScanAt(_, _)
ScanAt(buf, i) ==
    IF i = 1 THEN 0
    ELSE LET l == LocalAt(buf, ScanAt(buf, i - 1))
         IN  l.dataAt + l.csize

RECURSIVE SumTo(_, _)
SumTo(f, n) == IF n = 0 THEN 0 ELSE f[n] + SumTo(f, n - 1)

DistinctNames(fs) ==
    \A i, j \in 1..Len(fs) : fs[i].name = fs[j].name => i = j

\* C1: for every entry list with pairwise distinct non-empty names, reading
\* the returned buffer the way a ZIP reader does (end record, central
\* directory, local headers, stored bytes, inflate when the method is 8)
\* yields exactly the original (name, payload) pairs, one per entry.
C1_RoundTrip ==
    (Returned /\ DistinctNames(files)
       /\ \A i \in 1..Len(files) : files[i].name # <<>>)
    => LET u == Unzip(result)
       IN  /\ u.ok
           /\ Len(u.entries) = Len(files)
           /\ {<<u.entries[k].name, u.entries[k].payload>> :
                   k \in 1..Len(u.entries)}
              = {<<files[i].name, files[i].data>> : i \in 1..Len(files)}

\* a returned archive of two entries, one of them deflated and one stored
C1_Witness ==
    /\ Returned
    /\ Len(files) = 2
    /\ DistinctNames(files)
    /\ Len(Cd) = 2
    /\ Cd[1].method = MethodDeflate
    /\ Cd[2].method = MethodStore
    /\ Unzip(result).ok

\* C2: the local-header offset in the i-th central header is the position at
\* which the i-th local header starts, the sum over the earlier entries of
\* 30 + name byte length + stored data length; the first offset is 0; the
\* local header there carries the central header's name and sizes.
C2_OffsetConsistency ==
    Returned =>
      /\ Len(Cd) = Len(files)
      /\ \A i \in 1..Len(files) :
           LET l == LocalAt(result, Cd[i].localOffset)
           IN  /\ Cd[i].localOffset =
                    SumTo([j \in 1..Len(files) |->
                             30 + Len(NameBytes(j)) + Cd[j].csize], i - 1)
               /\ Cd[i].localOffset = ScanAt(result, i)
               /\ (i = 1 => Cd[i].localOffset = 0)
               /\ l.sig = LocalSig
               /\ l.name = Cd[i].name
               /\ l.name = NameBytes(i)
               /\ l.csize = Cd[i].csize
               /\ l.usize = Cd[i].usize

\* a returned archive whose second entry starts after a first entry that has
\* a multi-byte name and deflated data
C2_Witness ==
    /\ Returned
    /\ Len(files) = 2
    /\ Len(Cd) = 2
    /\ Cd[1].method = MethodDeflate
    /\ Len(NameBytes(1)) > Len(files[1].name)
    /\ Cd[2].localOffset > 0

\* C3: for every entry with compress = true the compressed-size field is at
\* most the uncompressed-size field, and when the DEFLATE output is not
\* strictly smaller than the payload the entry is written with method 0 and
\* compressed size equal to uncompressed size.
C3_CompressionSelection ==
    Returned =>
      /\ Len(Cd) = Len(files)
      /\ \A i \in 1..Len(files) :
           files[i].compress =>
             LET l == LocalAt(result, Cd[i].localOffset)
                 notSmaller == Len(deflateRawSync(files[i].data))
                               >= Len(files[i].data)
             IN  /\ Cd[i].csize <= Cd[i].usize
                 /\ l.csize <= l.usize
                 /\ notSmaller =>
                      /\ Cd[i].method = MethodStore
                      /\ l.method = MethodStore
                      /\ Cd[i].csize = Cd[i].usize
                      /\ l.csize = l.usize

\* a returned archive with a compress = true entry that DEFLATE would
\* enlarge and another that DEFLATE shrinks
C3_Witness ==
    /\ Returned
    /\ Len(files) = 2
    /\ files[1].compress
    /\ files[2].compress
    /\ Len(deflateRawSync(files[1].data)) > Len(files[1].data)
    /\ Len(deflateRawSync(files[2].data)) < Len(files[2].data)
    /\ Len(Cd) = 2
    /\ Cd[2].csize < Cd[2].usize

\* C4: the CRC-32 field of every entry's local header and of its central
\* header is the CRC-32 of the original uncompressed payload, whether the
\* entry is stored or deflated.
C4_CrcInHeaders ==
    Returned =>
      /\ Len(Cd) = Len(files)
      /\ \A i \in 1..Len(files) :
           /\ Cd[i].crc = Crc32Reference(files[i].data)
           /\ LocalAt(result, ScanAt(result, i)).crc
              = Crc32Reference(files[i].data)

\* a returned archive with a deflated and a stored entry of the same payload
C4_Witness ==
    /\ Returned
    /\ Len(files) = 2
    /\ files[1].data = files[2].data
    /\ files[1].data # <<>>
    /\ Len(Cd) = 2
    /\ Cd[1].method = MethodDeflate
    /\ Cd[2].method = MethodStore
    /\ Cd[1].crc = Cd[2].crc

\* C5: crc32(bytes) is the standard reflected CRC-32 (polynomial 0xEDB88320,
\* initial value and final XOR 0xFFFFFFFF) computed bit by bit, for every
\* byte sequence called with; crc32("123456789") is 0xCBF43926.
C5_Crc32Reference ==
    crcOut # Null =>
      /\ crcOut = Crc32Reference(crcIn)
      /\ (crcIn = CheckString => crcOut = <<52212, 14630>>)

\* crc32 has returned the check value for "123456789"
C5_Witness ==
    /\ crcIn = CheckString
    /\ crcOut = <<52212, 14630>>
    /\ crc32Table # Null

\* C9: every archive export-epub writes begins at byte 0 with the local
\* header of the entry named 'mimetype', method 0, both sizes 20, followed
\* at once by the bytes of 'application/epub+zip'; and while the handler
\* runs, the first entry of its files array is that entry.
C9_MimetypeFirst ==
    /\ reply = "success" =>
         LET l == LocalAt(disk, 0)
         IN  /\ l.sig = LocalSig
             /\ l.name = MimetypeName
             /\ l.method = MethodStore
             /\ l.csize = 20
             /\ l.usize = 20
             /\ l.dataAt = 30 + Len(MimetypeName)
             /\ Slice(disk, l.dataAt, 20) = MimetypeContent
             /\ CentralDirectory(disk)[1].name = MimetypeName
             /\ CentralDirectory(disk)[1].localOffset = 0
    /\ caller = "epub" =>
         /\ files # <<>>
         /\ files[1].name = MimetypeName
         /\ files[1].data = MimetypeContent
         /\ ~files[1].compress

\* an export of one note with an image and a recording has been written
C9_Witness ==
    /\ reply = "success"
    /\ notesData.isArray
    /\ Len(notesData.notes) = 1
    /\ ImageMatch(notesData.notes[1].imageDataUrl)
    /\ AudioMatch(notesData.notes[1].audioDataUrl)
    /\ Len(disk) > 58
    /\ Len(CentralDirectory(disk)) = 9

\* C6: the returned buffer is the local header and stored data of each entry
\* in input order, then the central headers in input order, then one end
\* record, with nothing before, between or after; the i-th central header
\* describes the i-th input entry.
C6_FinalLayout ==
    Returned =>
      LET n == Len(files)
          cdAt == ScanAt(result, n + 1)
          cdLen == SumTo([j \in 1..n |-> 46 + Len(NameBytes(j))], n)
          cd == CentralWalk(result, cdAt, n)
      IN  /\ \A i \in 1..n :
               LET l == LocalAt(result, ScanAt(result, i))
               IN  /\ l.sig = LocalSig
                   /\ l.extraLen = 0
                   /\ l.name = NameBytes(i)
                   /\ l.usize = Len(files[i].data)
                   /\ l.dataAt = l.at + 30 + Len(NameBytes(i))
                   /\ Slice(result, l.dataAt, l.csize) =
                        IF l.method = MethodDeflate
                        THEN deflateRawSync(files[i].data)
                        ELSE files[i].data
          /\ Len(cd) = n
          /\ \A i \in 1..n :
               /\ cd[i].at = cdAt + SumTo([j \in 1..n |->
                                             46 + Len(NameBytes(j))], i - 1)
               /\ cd[i].size = 46 + Len(NameBytes(i))
               /\ cd[i].name = NameBytes(i)
               /\ cd[i].usize = Len(files[i].data)
               /\ cd[i].localOffset = ScanAt(result, i)
          /\ EocdAt(result) = cdAt + cdLen
          /\ EocdOf(result).sig = EocdSig
          /\ Len(result) = cdAt + cdLen + 22

\* a returned archive of two entries with different names and payloads
C6_Witness ==
    /\ Returned
    /\ Len(files) = 2
    /\ files[1].name # files[2].name
    /\ files[1].data # files[2].data
    /\ files[1].data # <<>>
    /\ Len(result) > 22 + 2 * 76

\* C7: in the end record both entry counts are the number of entries, the
\* central-directory size is the sum of 46 + name byte length, the
\* central-directory offset is the sum of 30 + name byte length + stored
\* data length, where the first central header is placed; disk numbers and
\* comment length are 0.
C7_EocdFields ==
    Returned =>
      LET e == EocdOf(result)
          n == Len(files)
      IN  /\ e.sig = EocdSig
          /\ e.diskCount = n
          /\ e.count = n
          /\ e.cdSize = SumTo([j \in 1..n |-> 46 + Len(NameBytes(j))], n)
          /\ e.cdOffset = ScanAt(result, n + 1)
          /\ e.cdOffset =
               SumTo([j \in 1..n |->
                        30 + Len(NameBytes(j))
                        + LocalAt(result, ScanAt(result, j)).csize], n)
          /\ (n > 0 => ReadUInt32LE(result, e.cdOffset) = CentralSig)
          /\ e.disk = 0
          /\ e.cdDisk = 0
          /\ e.commentLen = 0

\* a returned archive of two entries whose central directory size and
\* offset differ
C7_Witness ==
    /\ Returned
    /\ Len(files) = 2
    /\ EocdOf(result).count = 2
    /\ EocdOf(result).cdSize # EocdOf(result).cdOffset
    /\ EocdOf(result).cdOffset > 60

\* C8: two calls with the same entry list return byte-identical buffers; the
\* first call of the process (no CRC table cached yet) returns what a later
\* call (table cached) returns, also when a call with other entries ran in
\* between.
C8_Idempotence ==
    (Returned /\ prev.stage = "repeat")
    => (prev.files = files /\ result = prev.result)

\* a non-empty list built a second time, the first time before any CRC
\* table had been built
C8_Witness ==
    /\ Returned
    /\ prev.stage = "repeat"
    /\ prev.fresh
    /\ Len(files) = 2
    /\ files[1].data # <<>>
    /\ Cd[1].method = MethodDeflate
    /\ crc32Table # Null

\* C10: when the DEFLATE step fails for an entry, createZipBuffer falls back
\* to storing that entry and still returns a complete archive: the step that
\* compresses an entry never ends the call with an exception.
C10_DeflateFailureFallsBack ==
    [][pc = "compress" => pc' # "threw"]_vars

\* C11: createZipBuffer either returns a buffer holding a local header, the
\* data and a central header for every input entry plus the end record, or
\* it fails with an exception and returns nothing; while it runs and after
\* it failed at entry k, nothing of the headers built before k is returned.
C11_NoPartialSuccess ==
    /\ pc \in {"compress", "headers", "finish", "threw"} => result = Null
    /\ result # Null =>
         /\ pc = "returned"
         /\ EocdOf(result).sig = EocdSig
         /\ EocdOf(result).count = Len(files)
         /\ Len(Cd) = Len(files)
         /\ \A i \in 1..Len(files) :
              LET l == LocalAt(result, ScanAt(result, i))
              IN  /\ l.sig = LocalSig
                  /\ l.name = NameBytes(i)
                  /\ l.dataAt + l.csize <= EocdOf(result).cdOffset
                  /\ Cd[i].name = NameBytes(i)
                  /\ Cd[i].localOffset = l.at

\* the call failed at its second entry, the headers of the first one built
C11_Witness ==
    /\ pc = "threw"
    /\ idx = 2
    /\ Len(localHeaders) = 1
    /\ Len(centralHeaders) = 1
    /\ result = Null

\* C12: when the entry list holds a malformed entry (a payload that is no
\* byte sequence, a name that cannot be encoded as UTF-8), createZipBuffer
\* rejects the call before it compresses, checksums or builds a header for
\* any entry, and returns no archive.
C12_RejectedBeforeProcessing ==
    (caller = "direct" /\ Malformed(files)) =>
      /\ cur = Null
      /\ localHeaders = <<>>
      /\ centralHeaders = <<>>
      /\ result = Null

\* C13: createZipBuffer([]) returns exactly 22 bytes, the end record alone:
\* its signature, then both entry counts, the central directory size and
\* the central directory offset all 0.
C13_EmptyList ==
    (Returned /\ files = <<>>) =>
      /\ Len(result) = 22
      /\ result = <<80, 75, 5, 6>> \o [k \in 1..18 |-> 0]
      /\ EocdOf(result).sig = EocdSig
      /\ EocdOf(result).diskCount = 0
      /\ EocdOf(result).count = 0
      /\ EocdOf(result).cdSize = 0
      /\ EocdOf(result).cdOffset = 0

\* a call on the empty list has returned
C13_Witness ==
    /\ Returned
    /\ files = <<>>
    /\ localHeaders = <<>>
    /\ result # Null

\* C14: an entry whose payload is empty is written with CRC 0 (the CRC-32 of
\* the empty sequence), uncompressed size 0, compressed size 0 and method 0
\* whatever its compress flag; the two bytes DEFLATE makes of an empty input
\* are never kept.
C14_EmptyPayload ==
    Returned =>
      /\ Len(Cd) = Len(files)
      /\ \A i \in 1..Len(files) :
           files[i].data = <<>> =>
             LET l == LocalAt(result, ScanAt(result, i))
             IN  /\ Crc32Reference(<<>>) = <<0, 0>>
                 /\ Cd[i].crc = <<0, 0>>
                 /\ l.crc = <<0, 0>>
                 /\ Cd[i].usize = 0
                 /\ l.usize = 0
                 /\ Cd[i].csize = 0
                 /\ l.csize = 0
                 /\ Cd[i].method = MethodStore
                 /\ l.method = MethodStore
                 /\ Len(deflateRawSync(files[i].data)) > 0

\* two empty payloads have been written, one with compress, one without
C14_Witness ==
    /\ Returned
    /\ Len(files) = 2
    /\ files[1].data = <<>>
    /\ files[2].data = <<>>
    /\ files[1].compress
    /\ ~files[2].compress
    /\ Len(Cd) = 2

\* C18: the method field of an entry is 8 exactly when compress is true and
\* the DEFLATE output is strictly shorter than the payload, and 0 otherwise;
\* the bytes after the local header are the DEFLATE output when the method
\* is 8 and the unchanged payload when it is 0.
C18_StorageDecision ==
    Returned =>
      /\ Len(Cd) = Len(files)
      /\ \A i \in 1..Len(files) :
           LET l == LocalAt(result, ScanAt(result, i))
               deflated == deflateRawSync(files[i].data)
               shorter == Len(deflated) < Len(files[i].data)
           IN  /\ l.method = IF files[i].compress /\ shorter
                             THEN MethodDeflate ELSE MethodStore
               /\ Cd[i].method = l.method
               /\ Slice(result, l.dataAt, l.csize) =
                    IF l.method = MethodDeflate THEN deflated
                    ELSE files[i].data
               /\ l.csize = IF l.method = MethodDeflate THEN Len(deflated)
                            ELSE Len(files[i].data)

\* a compress = true entry whose DEFLATE output is as long as its payload,
\* and a compress = false entry that DEFLATE would shrink
C18_Witness ==
    /\ Returned
    /\ Len(files) = 2
    /\ files[1].compress
    /\ files[1].data # <<>>
    /\ Len(deflateRawSync(files[1].data)) = Len(files[1].data)
    /\ ~files[2].compress
    /\ Len(deflateRawSync(files[2].data)) < Len(files[2].data)
    /\ Len(Cd) = 2
    /\ Cd[1].method = MethodStore
    /\ Cd[2].method = MethodStore

\* C19: the central header of every entry carries the same method, CRC-32,
\* compressed size, uncompressed size, name length and name bytes as the
\* entry's local header, and both carry version needed 20, flags 0,
\* modification time 0 and date 0.
C19_HeadersAgree ==
    Returned =>
      /\ Len(Cd) = Len(files)
      /\ \A i \in 1..Len(files) :
           LET c == Cd[i]
               l == LocalAt(result, ScanAt(result, i))
           IN  /\ c.method = l.method
               /\ c.crc = l.crc
               /\ c.csize = l.csize
               /\ c.usize = l.usize
               /\ c.nameLen = l.nameLen
               /\ c.name = l.name
               /\ c.needed = 20 /\ l.needed = 20
               /\ c.flags = 0 /\ l.flags = 0
               /\ c.time = 0 /\ l.time = 0
               /\ c.date = 0 /\ l.date = 0

\* an archive with a deflated entry under a multi-byte name
C19_Witness ==
    /\ Returned
    /\ Len(files) = 2
    /\ Len(Cd) = 2
    /\ Cd[2].method = MethodDeflate
    /\ Cd[2].csize < Cd[2].usize
    /\ Cd[2].nameLen > Len(files[2].name)

\* C20: the CRC-32 of an entry's payload is computed before its compression
\* is attempted or decided: when the compression of an entry is over, crc32
\* has already run in the process, and so has left its table in the cache.
C20_CrcBeforeCompression ==
    pc = "headers" => crc32Table # Null

AloneStep(f) ==
    IF f.pc = "compress" THEN FrameCompress(f)
    ELSE IF f.pc = "headers" THEN FrameWriteHeaders(f, NewCrc32Table)
    ELSE FrameFinish(f)

RECURSIVE AloneUntil(_, _, _)
AloneUntil(f, i, at) ==
    IF (f.idx = i /\ f.pc = at) \/ f.pc \in {"returned", "threw"} THEN f
    ELSE CHOOSE r \in {AloneUntil(g, i, at) : g \in {AloneStep(f)}} : TRUE

Alone(fs, i, at) ==
    IF at = "threw"
    THEN [AloneUntil(NewFrame(fs), i, "compress") EXCEPT !.pc = "threw"]
    ELSE AloneUntil(NewFrame(fs), i, at)

\* C16: when createZipBuffer calls are interleaved in any order of their
\* steps, each returns the buffer it returns when run alone, and at every
\* moment the offset, header lists and current entry of a call are those of
\* the same call run alone: no call reads or writes another's.
C16_IndependentBuilds ==
    \A b \in 1..Len(builds) :
      /\ builds[b] = Alone(builds[b].files, builds[b].idx, builds[b].pc)
      /\ builds[b].pc = "returned" =>
           /\ builds[b].result =
                Alone(builds[b].files, Len(builds[b].files) + 1,
                      "returned").result
           /\ Unzip(builds[b].result).ok

\* two calls on different lists, both returned, the second started before
\* the first had finished and finished first or second
C16_Witness ==
    /\ Len(builds) = 2
    /\ builds[1].files # builds[2].files
    /\ Len(builds[1].files) = 2
    /\ Len(builds[2].files) = 2
    /\ builds[1].pc = "returned"
    /\ builds[2].pc = "returned"
    /\ builds[1].result # builds[2].result

\* C17: createZipBuffer produces an archive only for an entry count under
\* 65535; a list of 65535 or more entries does not yield an archive.
C17_ArchiveLimits ==
    (bulk # Null /\ bulk.outcome = "returned") => bulk.count < 65535

\* C21: duplicate names are neither detected nor rejected: when two entries
\* of the list have the same name the call returns, the buffer holds a local
\* header, a data block and a central header of its own for each of them,
\* each at its own place, and the end record counts both; a list with a
\* repeated name fails only where the deflate step of an entry fails.
C21_DuplicateNames ==
    ~DistinctNames(files) =>
      /\ pc = "threw" => files[idx].compress
      /\ Returned =>
           /\ EocdOf(result).count = Len(files)
           /\ EocdOf(result).diskCount = Len(files)
           /\ Len(Cd) = Len(files)
           /\ \A i \in 1..Len(files) :
                LET l == LocalAt(result, ScanAt(result, i))
                IN  /\ l.sig = LocalSig
                    /\ l.name = NameBytes(i)
                    /\ l.usize = Len(files[i].data)
                    /\ Slice(result, l.dataAt, l.csize) =
                         IF l.method = MethodDeflate
                         THEN deflateRawSync(files[i].data)
                         ELSE files[i].data
                    /\ Cd[i].sig = CentralSig
                    /\ Cd[i].name = NameBytes(i)
                    /\ Cd[i].localOffset = l.at
           /\ \A i, j \in 1..Len(files) :
                i < j => /\ Cd[i].localOffset < Cd[j].localOffset
                         /\ Cd[i].at < Cd[j].at

\* a returned archive of two entries that share their name and differ in
\* their payload
C21_Witness ==
    /\ Returned
    /\ Len(files) = 2
    /\ files[1].name = files[2].name
    /\ files[1].data # files[2].data
    /\ files[1].data # <<>>
    /\ EocdOf(result).count = 2
    /\ Cd[1].name = Cd[2].name

\* C22: crc32 returns an integer in 0..2^32-1 for every input and every
\* entry of the CRC table is in 0..2^32-1, also where the XOR that produced
\* the value was a negative signed 32-bit number; the value crc32 returns
\* passes the range check of the 32-bit header field it is written to.
C22_UnsignedRange ==
    /\ crcOut # Null =>
         /\ IsUint32(crcOut)
         /\ FitsUInt32(crcOut)
         /\ crcOut = ToUint32(JsXor(Crc32Loop(crcIn, crc32Table,
                                              [crc |-> AllOnes, i |-> 1]),
                                    AllOnes))
    /\ crc32Table # Null =>
         /\ Len(crc32Table) = 256
         /\ \A i \in 1..256 : IsUint32(crc32Table[i])

\* crc32 has returned for an input whose final XOR is negative as a signed
\* 32-bit value, with a table one of whose entries left the inner loop
\* negative
C22_Witness ==
    /\ crcOut # Null
    /\ crcIn # <<>>
    /\ JsXor(Crc32Loop(crcIn, crc32Table, [crc |-> AllOnes, i |-> 1]),
             AllOnes)[1] < 0
    /\ crcOut[1] >= 32768
    /\ TableRounds([c |-> Num(128), j |-> 0])[1] < 0
    /\ crc32Table[129] = Poly

\* C23: the CRC table is built at most once per process: once a crc32 call
\* has returned or createZipBuffer has built a header the 256-entry table is
\* there, it was built once, and whatever is called afterwards it stays
\* what that one build left, entry for entry.
C23_BuiltOnce ==
    /\ tableBuilds <= 1
    /\ (crc32Table = Null) <=> (tableBuilds = 0)
    /\ (crcOut # Null \/ localHeaders # <<>>) => tableBuilds = 1
    /\ crc32Table # Null =>
         /\ Len(crc32Table) = 256
         /\ crc32Table = NewCrc32Table

\* a crc32 call has returned and a createZipBuffer call of two entries
\* after it, three fetches of the table and one build
C23_Witness ==
    /\ crcOut # Null
    /\ crcIn # <<>>
    /\ Returned
    /\ Len(files) = 2
    /\ Len(localHeaders) = 2
    /\ tableBuilds = 1
    /\ crc32Table = NewCrc32Table

C25_LengthIdentity ==
    Returned =>
      LET e == EocdOf(result)
          cd == CentralWalk(result, e.cdOffset, e.count)
      IN  /\ Len(result) = e.cdOffset + e.cdSize + 22
          /\ EocdAt(result) = e.cdOffset + e.cdSize
          /\ ReadUInt32LE(result, e.cdOffset + e.cdSize) = EocdSig
          /\ Len(cd) = e.count
          /\ e.count = 0 => e.cdSize = 0 /\ e.cdOffset = 0
          /\ e.count > 0 =>
                /\ cd[1].at = e.cdOffset
                /\ cd[e.count].at + cd[e.count].size = EocdAt(result)

\* a returned archive of two entries, the first of them deflated and under
\* a multi-byte name
C25_Witness ==
    /\ Returned
    /\ Len(files) = 2
    /\ Len(NameBytes(1)) > Len(files[1].name)
    /\ Cd[1].method = MethodDeflate
    /\ EocdOf(result).cdSize > 92
    /\ EocdOf(result).cdOffset > 60
    /\ Len(result) = EocdOf(result).cdOffset + EocdOf(result).cdSize + 22

\* C26: the input is left unchanged: no step of a running createZipBuffer
\* call, the one that returns and the one that throws included, adds,
\* removes or reorders an element of the entry list or changes the name,
\* the payload bytes or the compress flag of an entry.
C26_InputUnchanged ==
    [][(pc \in {"compress", "headers", "finish"}) => (files' = files)]_vars

\* a call has returned that stored the deflated bytes of its first entry
\* and the payload of its second, the list still holding both payloads
C26_Witness ==
    /\ Returned
    /\ Len(files) = 2
    /\ files[1].compress
    /\ files[1].data = Run(MaxRun)
    /\ localHeaders[1].data # files[1].data
    /\ localHeaders[2].data = files[2].data
    /\ files[2].data # <<>>

\* C27: the export-epub handler never rejects; it answers success only in
\* the step that writes to savePath the complete buffer createZipBuffer
\* returned; when the assembly of the entries throws or createZipBuffer
\* throws it answers failure and nothing has been written to savePath, nor
\* is anything written while the archive is being built.
C27_ExportOutcome ==
    [][/\ reply' \in {"none", "success", "failure"}
       /\ (reply' = "success" /\ reply # "success") =>
            /\ caller = "epub"
            /\ pc = "returned"
            /\ result # Null
            /\ disk' = result
            /\ Unzip(result).ok
            /\ Len(Unzip(result).entries) = Len(files)
       /\ (caller = "epub" /\ pc = "threw") =>
            /\ reply' = "failure"
            /\ disk = Null
            /\ disk' = Null
       /\ (pc = "idle" /\ reply' = "failure") => (disk' = Null)
       /\ (caller = "epub" /\ pc \in {"compress", "headers", "finish"}) =>
            /\ reply' = "none"
            /\ disk' = Null]_vars

\* the handler has answered failure for a note whose picture is no string,
\* which made the assembly throw, and nothing is at savePath
C27_Witness ==
    /\ reply = "failure"
    /\ pc = "idle"
    /\ notesData.isArray
    /\ Len(notesData.notes) = 1
    /\ notesData.notes[1].imageDataUrl = NonString
    /\ EpubFiles(notesData).threw
    /\ disk = Null

\* C28: the entry names export-epub builds are non-empty and pairwise
\* distinct for every notes list: each of the six fixed names occurs once,
\* each note has its one chapter name, and no chapter, image or audio name
\* of a note equals a fixed name or a name of another note.
C28_DistinctEntryNames ==
    caller = "epub" =>
      /\ \A i \in 1..Len(files) : files[i].name # <<>>
      /\ DistinctNames(files)
      /\ \A n \in {MimetypeName, ContainerName, StylesName, TitlePageName,
                    NavName, OpfName} :
           Cardinality({i \in 1..Len(files) : files[i].name = n}) = 1
      /\ \A k \in 1..Len(notesData.notes) :
           Cardinality({i \in 1..Len(files) :
                          files[i].name = ChapterPrefix \o Decimal(k - 1)
                                          \o XhtmlSuffix}) = 1
      /\ Len(files) >= 6 + Len(notesData.notes)

\* an archive of two notes, each with a picture and a recording, has been
\* built: six fixed entries, two chapters, two images, two recordings
C28_Witness ==
    /\ caller = "epub"
    /\ pc = "returned"
    /\ Len(notesData.notes) = 2
    /\ \A k \in 1..2 : /\ ImageMatch(notesData.notes[k].imageDataUrl)
                        /\ AudioMatch(notesData.notes[k].audioDataUrl)
    /\ Len(files) = 12
    /\ DistinctNames(files)

\* C29: termination: a running createZipBuffer call comes to its end,
\* returned after exactly one pass over each entry of the list or thrown at
\* the entry it had reached, and every crc32 invocation comes to its end
\* after exactly one table lookup per byte of its input.
C29_Termination ==
    /\ (pc \in {"compress", "headers", "finish"})
         ~> \/ /\ pc = "returned"
               /\ idx = Len(files) + 1
               /\ Len(localHeaders) = Len(files)
               /\ Len(centralHeaders) = Len(files)
            \/ /\ pc = "threw"
               /\ idx <= Len(files)
               /\ Len(localHeaders) = idx - 1
    /\ \A p \in 1..MaxInvocations :
         (Len(invocations) >= p)
           ~> /\ Len(invocations) >= p
              /\ invocations[p].pc = "done"
              /\ invocations[p].i = Len(invocations[p].buffer)

\* a call on two entries has returned after a crc32 invocation on two
\* bytes came to its end
C29_Witness ==
    /\ pc = "returned"
    /\ Len(files) = 2
    /\ idx = 3
    /\ Len(invocations) >= 1
    /\ invocations[1].pc = "done"
    /\ invocations[1].i = 2

====
